---- MODULE Spec2Model ----
(***************************************************************************)
(* Particle world (include/aspect/particle/world.h) and its integrators    *)
(* (include/aspect/particle/integrator.h).                                 *)
(*                                                                         *)
(* Real numbers are modelled by integers.  Velocities are multiples of 6   *)
(* and timesteps are integers, so that every 0.5*k and every (...)/6.0 of  *)
(* the integrators is exact.  A Point<dim> is a tuple of Dim integers; the *)
(* mesh is a row of cells along the first coordinate axis.                 *)
(***************************************************************************)
EXTENDS Integers, Sequences, FiniteSets, TLC

\* ------------------------------------------------------------------ bounds
NumWorkers == 3          \* size of the MPI communicator
NumParticles == 2        \* largest total_particles handed to global_add_particles
Dim == 1                 \* template parameter dim
MaxCalls == 8            \* integrate_step calls made on the directly driven integrator
MaxVolume == 5           \* largest local volume given to the id computation
MaxStep == 5             \* largest _step an integrator object is set up with

\* --------------------------------------------------------------- constants
SizeofDouble == 8
DoubleDigits == 53       \* significant bits of a double
MaxTries == 100          \* while (num_tries < 100)

Workers == 0 .. (NumWorkers - 1)
Kinds == {"Euler", "RK2", "RK4"}

\* ------------------------------------------------------------------ points
ZeroPoint == [d \in 1 .. Dim |-> 0]
MkPoint(x) == [d \in 1 .. Dim |-> IF d = 1 THEN x ELSE 0]
PAdd(a, b) == [d \in 1 .. Dim |-> a[d] + b[d]]
PScale(s, a) == [d \in 1 .. Dim |-> s * a[d]]
\* 0.5*a ; exact because every a[d] it is applied to is even
PHalf(a) == [d \in 1 .. Dim |-> a[d] \div 2]
\* a/6.0 ; exact because every a[d] it is applied to is a multiple of 6
PSixth(a) == [d \in 1 .. Dim |-> a[d] \div 6]

\* -------------------------------------------------------------------- mesh
\* LevelInd(-1,-1), the "not found" handle
NoCell == <<-1, -1>>

\* std::pair<int,int> ordering used by std::multimap<LevelInd, T>
CellLess(a, b) == a[1] < b[1] \/ (a[1] = b[1] /\ a[2] < b[2])

\* The triangulation: two coarse cells; the second one may be refined into
\* two children.  The last child follows a boundary that the coarse cell
\* does not represent, so it reaches one unit beyond its parent.
AllCells == {<<0, 0>>, <<0, 1>>, <<1, 0>>, <<1, 1>>}
CellLo(c) == CASE c = <<0, 0>> -> 0
               [] c = <<0, 1>> -> 6
               [] c = <<1, 0>> -> 6
               [] c = <<1, 1>> -> 9
CellHi(c) == CASE c = <<0, 0>> -> 6
               [] c = <<0, 1>> -> 12
               [] c = <<1, 0>> -> 9
               [] c = <<1, 1>> -> 13

\* cells of level 0 in iteration order, _tria->begin(0) .. _tria->end(0)
RootCells == << <<0, 0>>, <<0, 1>> >>

\* found_cell->child(0..n_children-1)
Children(tr, c) ==
    IF tr.refined /\ c = <<0, 1>> THEN << <<1, 0>>, <<1, 1>> >> ELSE << >>

\* cell_iterator(_tria, level, index) != _tria->end()
IsCell(tr, c) ==
    \/ c \in {<<0, 0>>, <<0, 1>>}
    \/ tr.refined /\ c \in {<<1, 0>>, <<1, 1>>}

\* found_cell->active()
IsActive(tr, c) == IsCell(tr, c) /\ Children(tr, c) = << >>

\* _tria->begin_active() .. _tria->end(), level by level
ActiveCells(tr) ==
    IF tr.refined THEN << <<0, 0>>, <<1, 0>>, <<1, 1>> >>
                  ELSE << <<0, 0>>, <<0, 1>> >>

ActiveSet(tr) == {ActiveCells(tr)[i] : i \in 1 .. Len(ActiveCells(tr))}

\* cell->point_inside(p); closed cells, so a point on a shared face is
\* inside both neighbours
point_inside(c, p) == CellLo(c) <= p[1] /\ p[1] <= CellHi(c)

\* cell->measure()
measure(c) == CellHi(c) - CellLo(c)

\* cell->is_locally_owned() on worker w
is_locally_owned(tr, w, c) == IsActive(tr, c) /\ tr.owner[c] = w

\* The partitions of the active cells the mesh provider may produce
PartitionOf(refined, k) ==
    LET ac == ActiveCells([refined |-> refined])
    IN  [c \in {ac[i] : i \in 1 .. Len(ac)} |->
            (((CHOOSE i \in 1 .. Len(ac) : ac[i] = c) - 1) + k) % NumWorkers]

Meshes == {[refined |-> r, owner |-> PartitionOf(r, k)] :
              r \in BOOLEAN, k \in {0, 1}}

\* --------------------------------------------------------------- find_cell
RECURSIVE recursive_find_cell(_, _, _), DescendChildren(_, _, _, _)

\* The loop over the children in recursive_find_cell: the first child whose
\* subtree yields a cell wins
DescendChildren(tr, loc, cells, i) ==
    IF i > Len(cells) THEN NoCell
    ELSE LET res == recursive_find_cell(tr, loc, cells[i])
         IN  IF res[1] # -1 /\ res[2] # -1 THEN res
             ELSE DescendChildren(tr, loc, cells, i + 1)

recursive_find_cell(tr, loc, cur_cell) ==
    IF IsCell(tr, cur_cell) /\ point_inside(cur_cell, loc)
    THEN IF IsActive(tr, cur_cell) THEN cur_cell
         ELSE DescendChildren(tr, loc, Children(tr, cur_cell), 1)
    ELSE NoCell

\* The loop over the level 0 cells in find_cell
RECURSIVE SearchRoots(_, _, _)
SearchRoots(tr, loc, i) ==
    IF i > Len(RootCells) THEN NoCell
    ELSE LET res == recursive_find_cell(tr, loc, RootCells[i])
         IN  IF res[1] # -1 /\ res[2] # -1 THEN res
             ELSE SearchRoots(tr, loc, i + 1)

\* ScanActive that gives up at once: find_cell without its last loop
ScanActive_None(tr, loc, i) == NoCell

\* The loop over the active cells in find_cell
RECURSIVE ScanActive(_, _, _)
ScanActive(tr, loc, i) ==
    IF i > Len(ActiveCells(tr)) THEN NoCell
    ELSE IF point_inside(ActiveCells(tr)[i], loc) THEN ActiveCells(tr)[i]
         ELSE ScanActive(tr, loc, i + 1)

\* HintHolds without the test of _triangulation_changed
HintHolds_IgnoresFlag(tr, changed, loc, cur_cell) ==
    /\ IsCell(tr, cur_cell)
    /\ point_inside(cur_cell, loc)
    /\ IsActive(tr, cur_cell)

\* The test that guards the early return of find_cell
HintHolds(tr, changed, loc, cur_cell) ==
    /\ ~changed
    /\ IsCell(tr, cur_cell)
    /\ point_inside(cur_cell, loc)
    /\ IsActive(tr, cur_cell)

\* find_cell on worker w.  cell: the returned handle; local: the value given
\* to particle.set_local; route: which part of the function returned
\* ("hint": the early return, "descent": the search from the level 0 cells,
\* "scan": the loop over the active cells, "none": nothing found).
find_cell(tr, w, changed, loc, cur_cell) ==
    IF HintHolds(tr, changed, loc, cur_cell)
    THEN [cell |-> cur_cell, local |-> is_locally_owned(tr, w, cur_cell),
          route |-> "hint"]
    ELSE LET res == SearchRoots(tr, loc, 1)
         IN  IF res # NoCell
             THEN [cell |-> res, local |-> is_locally_owned(tr, w, res),
                   route |-> "descent"]
             ELSE LET ait == ScanActive(tr, loc, 1)
                  IN  IF ait # NoCell
                      THEN [cell |-> ait,
                            local |-> is_locally_owned(tr, w, ait),
                            route |-> "scan"]
                      ELSE [cell |-> NoCell, local |-> FALSE,
                            route |-> "none"]

\* ------------------------------------------------ std::multimap<LevelInd,T>
\* A container is a sequence of entries [cell, id, loc, vel, local], sorted
\* by cell; entries with equal cell are in insertion order.

\* _particles.insert(std::make_pair(cell, particle))
MapInsert(m, e) ==
    LET n == Cardinality({i \in 1 .. Len(m) : ~CellLess(e.cell, m[i].cell)})
    IN  SubSeq(m, 1, n) \o <<e>> \o SubSeq(m, n + 1, Len(m))

\* _particles.insert(first, last)
RECURSIVE MapInsertAll(_, _)
MapInsertAll(m, es) ==
    IF es = << >> THEN m ELSE MapInsertAll(MapInsert(m, Head(es)), Tail(es))

\* Number of entries of container m that carry identifier id
CountId(m, id) == Cardinality({j \in 1 .. Len(m) : m[j].id = id})

\* ---------------------------------------------------------- find_all_cells
\* One pass of the loop: the entry with its refreshed is-local flag, the
\* handle find_cell returned for it and the part of find_cell that returned
Located(tr, w, changed, m) ==
    [i \in 1 .. Len(m) |->
        LET f == find_cell(tr, w, changed, m[i].loc, m[i].cell)
        IN  [e |-> [m[i] EXCEPT !.local = f.local], found |-> f.cell,
             route |-> f.route]]

\* found_cell == it->first: the entry stays where it is
IsKept(x) == x.found = x.e.cell

\* IsMoved that leaves out the particles found in no cell
IsMoved_InMeshOnly(x) == x.found # x.e.cell /\ x.found # NoCell

\* found_cell != it->first: the entry goes to tmp_map and is erased
IsMoved(x) == x.found # x.e.cell

find_all_cells(tr, w, changed, m) ==
    LET loc == Located(tr, w, changed, m)
        kept == SelectSeq(loc, IsKept)
        moved == SelectSeq(loc, IsMoved)
        stay == [i \in 1 .. Len(kept) |-> kept[i].e]
        tmp_map == MapInsertAll(<< >>,
                       [i \in 1 .. Len(moved) |->
                           [moved[i].e EXCEPT !.cell = moved[i].found]])
    IN  MapInsertAll(stay, tmp_map)

\* -------------------------------------------------------------- integrators
\* std::map<double, Point<dim> >: a function whose domain is the set of keys
EmptyMap == << >>
\* map[id] read: a missing key reads as the value-initialised Point
MapGet(map, id) == IF id \in DOMAIN map THEN map[id] ELSE ZeroPoint
\* the side effect of map[id]: a missing key is inserted
MapTouch(map, id) ==
    [x \in (DOMAIN map) \cup {id} |-> IF x \in DOMAIN map THEN map[x] ELSE ZeroPoint]
\* map[id] = v
MapPut(map, id, v) ==
    [x \in (DOMAIN map) \cup {id} |-> IF x = id THEN v ELSE map[x]]

\* The members of an integrator after its constructor: _step, _loc0, _k1,
\* _k2, _k3 (the Euler integrator has none and never changes them)
NewIntegrator ==
    [step |-> 0, loc0 |-> EmptyMap, k1 |-> EmptyMap, k2 |-> EmptyMap,
     k3 |-> EmptyMap]

\* EulerMove without the factor dt
EulerMove_NoDt(g, e, dt) ==
    [e |-> [e EXCEPT !.loc = PAdd(e.loc, e.vel)], g |-> g]

\* EulerIntegrator::integrate_step, body of the loop
EulerMove(g, e, dt) ==
    [e |-> [e EXCEPT !.loc = PAdd(e.loc, PScale(dt, e.vel))], g |-> g]

\* RK2Integrator::integrate_step, body of the loop
RK2Move(g, e, dt) ==
    IF g.step = 0
    THEN [e |-> [e EXCEPT !.loc = PAdd(e.loc, PHalf(PScale(dt, e.vel)))],
          g |-> [g EXCEPT !.loc0 = MapPut(g.loc0, e.id, e.loc)]]
    ELSE IF g.step = 1
    THEN [e |-> [e EXCEPT !.loc = PAdd(MapGet(g.loc0, e.id), PScale(dt, e.vel))],
          g |-> [g EXCEPT !.loc0 = MapTouch(g.loc0, e.id)]]
    ELSE [e |-> e, g |-> g]

\* RK4Move whose third stage moves by half of k3, as the second does by k2
RK4Move_HalfK3(g, e, dt) ==
    IF g.step = 0
    THEN [e |-> [e EXCEPT !.loc = PAdd(e.loc, PHalf(PScale(dt, e.vel)))],
          g |-> [g EXCEPT !.loc0 = MapPut(g.loc0, e.id, e.loc),
                          !.k1 = MapPut(g.k1, e.id, PScale(dt, e.vel))]]
    ELSE IF g.step = 1
    THEN [e |-> [e EXCEPT !.loc = PAdd(MapGet(g.loc0, e.id),
                                       PHalf(PScale(dt, e.vel)))],
          g |-> [g EXCEPT !.k2 = MapPut(g.k2, e.id, PScale(dt, e.vel)),
                          !.loc0 = MapTouch(g.loc0, e.id)]]
    ELSE IF g.step = 2
    THEN [e |-> [e EXCEPT !.loc = PAdd(MapGet(g.loc0, e.id),
                                       PHalf(PScale(dt, e.vel)))],
          g |-> [g EXCEPT !.k3 = MapPut(g.k3, e.id, PScale(dt, e.vel)),
                          !.loc0 = MapTouch(g.loc0, e.id)]]
    ELSE IF g.step = 3
    THEN [e |-> [e EXCEPT !.loc =
                    PAdd(MapGet(g.loc0, e.id),
                         PSixth(PAdd(PAdd(MapGet(g.k1, e.id),
                                          PScale(2, MapGet(g.k2, e.id))),
                                     PAdd(PScale(2, MapGet(g.k3, e.id)),
                                          PScale(dt, e.vel)))))],
          g |-> [g EXCEPT !.loc0 = MapTouch(g.loc0, e.id),
                          !.k1 = MapTouch(g.k1, e.id),
                          !.k2 = MapTouch(g.k2, e.id),
                          !.k3 = MapTouch(g.k3, e.id)]]
    ELSE [e |-> e, g |-> g]

\* RK4Integrator::integrate_step, body of the loop
RK4Move(g, e, dt) ==
    IF g.step = 0
    THEN [e |-> [e EXCEPT !.loc = PAdd(e.loc, PHalf(PScale(dt, e.vel)))],
          g |-> [g EXCEPT !.loc0 = MapPut(g.loc0, e.id, e.loc),
                          !.k1 = MapPut(g.k1, e.id, PScale(dt, e.vel))]]
    ELSE IF g.step = 1
    THEN [e |-> [e EXCEPT !.loc = PAdd(MapGet(g.loc0, e.id),
                                       PHalf(PScale(dt, e.vel)))],
          g |-> [g EXCEPT !.k2 = MapPut(g.k2, e.id, PScale(dt, e.vel)),
                          !.loc0 = MapTouch(g.loc0, e.id)]]
    ELSE IF g.step = 2
    THEN [e |-> [e EXCEPT !.loc = PAdd(MapGet(g.loc0, e.id), PScale(dt, e.vel))],
          g |-> [g EXCEPT !.k3 = MapPut(g.k3, e.id, PScale(dt, e.vel)),
                          !.loc0 = MapTouch(g.loc0, e.id)]]
    ELSE IF g.step = 3
    THEN [e |-> [e EXCEPT !.loc =
                    PAdd(MapGet(g.loc0, e.id),
                         PSixth(PAdd(PAdd(MapGet(g.k1, e.id),
                                          PScale(2, MapGet(g.k2, e.id))),
                                     PAdd(PScale(2, MapGet(g.k3, e.id)),
                                          PScale(dt, e.vel)))))],
          g |-> [g EXCEPT !.loc0 = MapTouch(g.loc0, e.id),
                          !.k1 = MapTouch(g.k1, e.id),
                          !.k2 = MapTouch(g.k2, e.id),
                          !.k3 = MapTouch(g.k3, e.id)]]
    ELSE [e |-> e, g |-> g]

\* The body of the loop of integrate_step setting the velocity it has used
\* to zero
Move_ClearsVelocity(kind, g, e, dt) ==
    LET r == CASE kind = "Euler" -> EulerMove(g, e, dt)
               [] kind = "RK2" -> RK2Move(g, e, dt)
               [] kind = "RK4" -> RK4Move(g, e, dt)
    IN  [r EXCEPT !.e.vel = ZeroPoint]

Move(kind, g, e, dt) ==
    CASE kind = "Euler" -> EulerMove(g, e, dt)
      [] kind = "RK2" -> RK2Move(g, e, dt)
      [] kind = "RK4" -> RK4Move(g, e, dt)

\* for (it=particles.begin(); it!=particles.end(); ++it) { ... }
RECURSIVE MoveAll(_, _, _, _, _)
MoveAll(kind, g, m, dt, i) ==
    IF i > Len(m) THEN [m |-> m, g |-> g]
    ELSE LET r == Move(kind, g, m[i], dt)
         IN  MoveAll(kind, r.g, [m EXCEPT ![i] = r.e], dt, i + 1)

\* RK2Finish without _loc0.clear()
RK2Finish_NoClear(g) == [g EXCEPT !.step = (g.step + 1) % 2]

\* What follows the loop: the clearing of the maps and the step counter
EulerFinish(g) == g

RK2Finish(g) ==
    [g EXCEPT !.loc0 = IF g.step = 1 THEN EmptyMap ELSE g.loc0,
              !.step = (g.step + 1) % 2]

\* RK4Finish that counts the sub-steps without wrapping back to 0
RK4Finish_NoWrap(g) == [g EXCEPT !.step = g.step + 1]

RK4Finish(g) ==
    LET next == (g.step + 1) % 4
    IN  IF next = 0 THEN [NewIntegrator EXCEPT !.step = next]
        ELSE [g EXCEPT !.step = next]

Finish(kind, g) ==
    CASE kind = "Euler" -> EulerFinish(g)
      [] kind = "RK2" -> RK2Finish(g)
      [] kind = "RK4" -> RK4Finish(g)

\* integrate_step reporting the scheme finished after every call
StepResult_AlwaysDone(kind, g) == FALSE

\* The value integrate_step returns
StepResult(kind, g) == IF kind = "Euler" THEN FALSE ELSE g.step # 0

\* integrate_step returning at once, and reporting the scheme finished, when
\* the container is empty
integrate_step_StopWhenEmpty(kind, g, m, dt) ==
    IF m = << >>
    THEN [m |-> m, g |-> g, ret |-> FALSE]
    ELSE LET r == MoveAll(kind, g, m, dt, 1)
             h == Finish(kind, r.g)
         IN  [m |-> r.m, g |-> h, ret |-> StepResult(kind, h)]

\* integrate_step that leaves the integrator untouched when the container
\* is empty, the returned flag being that of a full call
integrate_step_IdleWhenEmpty(kind, g, m, dt) ==
    IF m = << >>
    THEN [m |-> m, g |-> g, ret |-> StepResult(kind, Finish(kind, g))]
    ELSE LET r == MoveAll(kind, g, m, dt, 1)
             h == Finish(kind, r.g)
         IN  [m |-> r.m, g |-> h, ret |-> StepResult(kind, h)]

\* integrate_step(particles, dt): the container, the integrator and the
\* returned flag after the call
integrate_step(kind, g, m, dt) ==
    LET r == MoveAll(kind, g, m, dt, 1)
        h == Finish(kind, r.g)
    IN  [m |-> r.m, g |-> h, ret |-> StepResult(kind, h)]

\* MPIDataInfo(name, num_elems, data_type, elem_size_bytes); every data_type
\* used is MPI_DOUBLE
MPIDataInfo(name, num_elems, elem_size_bytes) ==
    [name |-> name, num_elems |-> num_elems,
     elem_size_bytes |-> elem_size_bytes]

\* add_mpi_types(data_info) of the integrator: the descriptors it appends
integrator_add_mpi_types(kind) ==
    CASE kind = "Euler" -> << >>
      [] kind = "RK2" -> <<MPIDataInfo("loc0", Dim, SizeofDouble)>>
      [] kind = "RK4" -> <<MPIDataInfo("loc0", Dim, SizeofDouble),
                           MPIDataInfo("k1", Dim, SizeofDouble),
                           MPIDataInfo("k2", Dim, SizeofDouble),
                           MPIDataInfo("k3", Dim, SizeofDouble)>>

\* indices that adds the element size of the preceding descriptor without
\* its element count
RECURSIVE indices_NoCount(_, _)
indices_NoCount(data_info, i) ==
    IF i = 1 THEN 0
    ELSE indices_NoCount(data_info, i - 1) + data_info[i - 1].elem_size_bytes

\* indices[i] of World::init (i counts from 1 here)
RECURSIVE indices(_, _)
indices(data_info, i) ==
    IF i = 1 THEN 0
    ELSE indices(data_info, i - 1)
         + data_info[i - 1].elem_size_bytes * data_info[i - 1].num_elems

\* data_len(MPI_DATA) of the integrator, in bytes
integrator_data_len(kind) ==
    CASE kind = "Euler" -> 0
      [] kind = "RK2" -> Dim * SizeofDouble
      [] kind = "RK4" -> 4 * Dim * SizeofDouble

\* A buffer is a sequence of doubles; a char* into it is a byte offset.
\* The doubles of a Point, in coordinate order
PointDoubles(pt) == [d \in 1 .. Dim |-> pt[d]]
\* The Point stored at byte offset p
PointAt(buf, p) == [d \in 1 .. Dim |-> buf[(p \div SizeofDouble) + d]]

\* write_data(MPI_DATA, id_num, data): the doubles written at data, the
\* returned pointer and the integrator afterwards (map[id] inserts)
integrator_write_data(kind, g, id, p) ==
    CASE kind = "Euler" -> [out |-> << >>, p |-> p, g |-> g]
      [] kind = "RK2" ->
           [out |-> PointDoubles(MapGet(g.loc0, id)),
            p |-> p + Dim * SizeofDouble,
            g |-> [g EXCEPT !.loc0 = MapTouch(g.loc0, id)]]
      [] kind = "RK4" ->
           [out |-> PointDoubles(MapGet(g.loc0, id)) \o
                    PointDoubles(MapGet(g.k1, id)) \o
                    PointDoubles(MapGet(g.k2, id)) \o
                    PointDoubles(MapGet(g.k3, id)),
            p |-> p + 4 * Dim * SizeofDouble,
            g |-> [g EXCEPT !.loc0 = MapTouch(g.loc0, id),
                            !.k1 = MapTouch(g.k1, id),
                            !.k2 = MapTouch(g.k2, id),
                            !.k3 = MapTouch(g.k3, id)]]

\* integrator_read_data that reads k2 where k1 is and k1 where k2 is
integrator_read_data_SwapK(kind, g, id, buf, p) ==
    CASE kind = "Euler" -> [p |-> p, g |-> g]
      [] kind = "RK2" ->
           [p |-> p + Dim * SizeofDouble,
            g |-> [g EXCEPT !.loc0 = MapPut(g.loc0, id, PointAt(buf, p))]]
      [] kind = "RK4" ->
           [p |-> p + 4 * Dim * SizeofDouble,
            g |-> [g EXCEPT
                     !.loc0 = MapPut(g.loc0, id, PointAt(buf, p)),
                     !.k2 = MapPut(g.k2, id,
                                PointAt(buf, p + Dim * SizeofDouble)),
                     !.k1 = MapPut(g.k1, id,
                                PointAt(buf, p + 2 * Dim * SizeofDouble)),
                     !.k3 = MapPut(g.k3, id,
                                PointAt(buf, p + 3 * Dim * SizeofDouble))]]

\* read_data(MPI_DATA, id_num, data): the returned pointer and the
\* integrator afterwards
integrator_read_data(kind, g, id, buf, p) ==
    CASE kind = "Euler" -> [p |-> p, g |-> g]
      [] kind = "RK2" ->
           [p |-> p + Dim * SizeofDouble,
            g |-> [g EXCEPT !.loc0 = MapPut(g.loc0, id, PointAt(buf, p))]]
      [] kind = "RK4" ->
           [p |-> p + 4 * Dim * SizeofDouble,
            g |-> [g EXCEPT
                     !.loc0 = MapPut(g.loc0, id, PointAt(buf, p)),
                     !.k1 = MapPut(g.k1, id,
                                PointAt(buf, p + Dim * SizeofDouble)),
                     !.k2 = MapPut(g.k2, id,
                                PointAt(buf, p + 2 * Dim * SizeofDouble)),
                     !.k3 = MapPut(g.k3, id,
                                PointAt(buf, p + 3 * Dim * SizeofDouble))]]

\* ------------------------------------------------------ particle wire format
\* T::data_len(MPI_DATA): identifier, position and velocity
particle_data_len == (1 + 2 * Dim) * SizeofDouble

\* T::write_data(MPI_DATA, data): the doubles written at data
particle_write_data(e) == <<e.id>> \o PointDoubles(e.loc) \o PointDoubles(e.vel)

\* T::read_data(MPI_DATA, data) into a default constructed particle
particle_read_data(buf, p) ==
    [id |-> buf[(p \div SizeofDouble) + 1],
     loc |-> PointAt(buf, p + SizeofDouble),
     vel |-> PointAt(buf, p + (1 + Dim) * SizeofDouble),
     local |-> FALSE,
     cell |-> NoCell]

\* IsLocal with the test inverted
IsLocal_Inverted(e) == ~e.local

\* ------------------------------------------------------ send_recv_particles
IsLocal(e) == e.local
IsNotLocal(e) == ~e.local

\* StayingParticles without the erase of the particles that are sent
StayingParticles_All(m) == m

\* The first loop: the entries that stay in _particles and send_particles
StayingParticles(m) == SelectSeq(m, IsLocal)
LeavingParticles(m) == SelectSeq(m, IsNotLocal)

\* NumSend announcing the leaving set to every rank, the own one included
NumSend_ToAll(w, total_send) == [rank \in Workers |-> total_send]

\* NumSend announcing the leaving set to the higher ranks only
NumSend_HigherRanks(w, total_send) ==
    [rank \in Workers |-> IF rank > w THEN total_send ELSE 0]

\* NumSend with the test of the rank inverted: the leaving set is announced
\* to the own rank only
NumSend_OwnRankOnly(w, total_send) ==
    [rank \in Workers |-> IF rank = w THEN total_send ELSE 0]

\* _num_send[rank] of worker w
NumSend(w, total_send) == [rank \in Workers |-> IF rank # w THEN total_send ELSE 0]

\* The loop that fills send_data: buf is send_data up to cur_send_ptr
RECURSIVE FillSendData(_, _, _, _, _)
FillSendData(kind, g, send_particles, i, buf) ==
    IF i > Len(send_particles) THEN [buf |-> buf, g |-> g]
    ELSE LET pbuf == buf \o particle_write_data(send_particles[i])
             r == integrator_write_data(kind, g, send_particles[i].id,
                                        Len(pbuf) * SizeofDouble)
         IN  FillSendData(kind, r.g, send_particles, i + 1, pbuf \o r.out)

\* Number of doubles of one record of _particle_type
RecordDoubles(kind) == (particle_data_len + integrator_data_len(kind)) \div SizeofDouble

\* MPI_Alltoallv seen from receiver w: from every rank, in rank order, the
\* first num_recv[rank] records of that rank's send_data (send offset 0)
RECURSIVE RecvData(_, _, _, _)
RecvData(kind, send_data, num_recv, rank) ==
    IF rank > NumWorkers - 1 THEN << >>
    ELSE SubSeq(send_data[rank], 1, num_recv[rank] * RecordDoubles(kind))
         \o RecvData(kind, send_data, num_recv, rank + 1)

\* KeepReceived without the test of the is-local flag
KeepReceived_Always(local) == TRUE

\* Whether a received particle is put in the domain
KeepReceived(local) == local

\* The loop over the received records: m is _particles, g the integrator
RECURSIVE PutInDomain(_, _, _, _, _, _, _, _, _)
PutInDomain(tr, w, changed, kind, g, m, buf, total_recv, i) ==
    IF i >= total_recv THEN [m |-> m, g |-> g]
    ELSE LET p == i * RecordDoubles(kind) * SizeofDouble
             recv_particle == particle_read_data(buf, p)
             r == integrator_read_data(kind, g, recv_particle.id, buf,
                                       p + particle_data_len)
             f == find_cell(tr, w, changed, recv_particle.loc, NoCell)
             e == [recv_particle EXCEPT !.local = f.local, !.cell = f.cell]
         IN  PutInDomain(tr, w, changed, kind, r.g,
                         IF KeepReceived(e.local) THEN MapInsert(m, e) ELSE m,
                         buf, total_recv, i + 1)

RECURSIVE SumTo(_, _)
SumTo(f, n) == IF n < 0 THEN 0 ELSE f[n] + SumTo(f, n - 1)

\* _recv_offset[rank], in records: the loop that also sums _total_recv
RECURSIVE recv_offset(_, _)
recv_offset(num_recv, rank) ==
    IF rank = 0 THEN 0
    ELSE recv_offset(num_recv, rank - 1) + num_recv[rank - 1]

\* send_recv_particles on every worker: parts and gs are the containers and
\* integrators of all workers before the call; the result gives them after
send_recv_particles(tr, changed, kind, parts, gs) ==
    LET sent == [w \in Workers |->
                    FillSendData(kind, gs[w], LeavingParticles(parts[w]), 1, << >>)]
        send_data == [w \in Workers |-> sent[w].buf]
        num_send == [w \in Workers |->
                        NumSend(w, Len(LeavingParticles(parts[w])))]
        \* MPI_Alltoall
        num_recv == [w \in Workers |-> [rank \in Workers |-> num_send[rank][w]]]
        total_recv == [w \in Workers |-> SumTo(num_recv[w], NumWorkers - 1)]
        done == [w \in Workers |->
                    PutInDomain(tr, w, changed[w], kind, sent[w].g,
                                StayingParticles(parts[w]),
                                RecvData(kind, send_data, num_recv[w], 0),
                                total_recv[w], 0)]
    IN  [m |-> [w \in Workers |-> done[w].m],
         g |-> [w \in Workers |-> done[w].g],
         num_send |-> num_send, num_recv |-> num_recv,
         total_recv |-> total_recv]

\* -------------------------------------------------- get_particle_velocities
\* The velocity fields handed to advance_timestep: one velocity left of the
\* middle of the domain and one right of it
Velocities == {-6, 0, 6}
Solutions == {<<6, 6>>, <<6, -6>>, <<0, 6>>}
Region(pt) == IF pt[1] < 6 THEN 1 ELSE 2

\* fe_value.vector_value_list for the cell set by set_active_cell; junk is
\* what the evaluator yields for a handle that is no active cell
vector_value_list(tr, sol, cell, points, junk) ==
    [n \in 1 .. Len(points) |->
        IF IsActive(tr, cell) THEN MkPoint(sol[Region(points[n])])
        ELSE MkPoint(junk)]

\* The calls of vector_value_list the loop of get_particle_velocities makes,
\* from the entry it on: for every call the cell given to set_active_cell,
\* the index sit of the first particle of the batch and particle_points
RECURSIVE VelocityBatches(_, _)
VelocityBatches(m, it) ==
    IF it > Len(m) THEN << >>
    ELSE LET cur_cell == m[it].cell
             num_cell_particles ==
                 Cardinality({k \in 1 .. Len(m) : m[k].cell = cur_cell})
             last == CHOOSE k \in it .. Len(m) :
                        /\ \A j \in it .. k : m[j].cell = cur_cell
                        /\ k = Len(m) \/ m[k + 1].cell # cur_cell
         IN  <<[cell |-> cur_cell, sit |-> it,
                particle_points |-> [n \in 1 .. num_cell_particles |->
                                       m[it + n - 1].loc]]>>
             \o VelocityBatches(m, last + 1)

\* get_particle_velocities giving the first result of a batch to every
\* particle of the cell
get_particle_velocities_FirstResult(tr, sol, m, junk) ==
    [i \in 1 .. Len(m) |->
        LET cur_cell == m[i].cell
            sit == CHOOSE k \in 1 .. Len(m) :
                      /\ m[k].cell = cur_cell
                      /\ \A j \in 1 .. (k - 1) : m[j].cell # cur_cell
            num_cell_particles == Cardinality({k \in 1 .. Len(m) : m[k].cell = cur_cell})
            particle_points == [n \in 1 .. num_cell_particles |-> m[sit + n - 1].loc]
            result == vector_value_list(tr, sol, cur_cell, particle_points, junk)
        IN  [m[i] EXCEPT !.vel = result[1]]]

get_particle_velocities(tr, sol, m, junk) ==
    [i \in 1 .. Len(m) |->
        LET cur_cell == m[i].cell
            sit == CHOOSE k \in 1 .. Len(m) :
                      /\ m[k].cell = cur_cell
                      /\ \A j \in 1 .. (k - 1) : m[j].cell # cur_cell
            num_cell_particles == Cardinality({k \in 1 .. Len(m) : m[k].cell = cur_cell})
            particle_points == [n \in 1 .. num_cell_particles |-> m[sit + n - 1].loc]
            result == vector_value_list(tr, sol, cur_cell, particle_points, junk)
        IN  [m[i] EXCEPT !.vel = result[i - sit + 1]]]

\* ---------------------------------------------------- check_particle_count
\* get_global_particle_count that reduces to rank 0 only and leaves out the
\* populations of the other ranks
get_global_particle_count_Rank0(parts) == Len(parts[0])

\* MPI_Allreduce(&local_particles, &global_particles, ..., MPI_SUM, ...)
get_global_particle_count(parts) ==
    SumTo([w \in Workers |-> Len(parts[w])], NumWorkers - 1)

\* CountMatches with the comparison weakened to "no more than"
CountMatches_AtMost(global_particles, sum) == global_particles <= sum

\* The condition of the AssertThrow in check_particle_count
CountMatches(global_particles, sum) == global_particles = sum

\* ------------------------------------------------------------------- double
\* The arithmetic of global_add_particles is done in IEEE 754 doubles, whose
\* rounding decides the identifiers.  A non-negative double is held exactly
\* as [int, frac]: the integer part and the bits after the binary point.
\* Every operation computes the exact result and rounds it to DoubleDigits
\* significant bits, ties to even.
Zero == [int |-> 0, frac |-> << >>]
FromInt(n) == [int |-> n, frac |-> << >>]

\* Number of bits of the natural number n
RECURSIVE IntBits(_)
IntBits(n) == IF n = 0 THEN 0 ELSE 1 + IntBits(n \div 2)

\* Index of the first 1 in a bit sequence, 0 if there is none
FirstOne(bits) ==
    IF \E i \in 1 .. Len(bits) : bits[i] = 1
    THEN CHOOSE i \in 1 .. Len(bits) :
             bits[i] = 1 /\ \A j \in 1 .. (i - 1) : bits[j] = 0
    ELSE 0

\* bits + one unit in the last place: the new bits and the carry out.  A
\* bit changes when all the bits after it are 1
IncBits(bits) ==
    [bits |-> [i \in 1 .. Len(bits) |->
                  IF \A j \in (i + 1) .. Len(bits) : bits[j] = 1
                  THEN 1 - bits[i] ELSE bits[i]],
     carry |-> IF \A j \in 1 .. Len(bits) : bits[j] = 1 THEN 1 ELSE 0]

\* Number of bits after the binary point that a double with value v keeps
KeptBits(v) ==
    IF v.int > 0 THEN DoubleDigits - IntBits(v.int)
    ELSE IF FirstOne(v.frac) = 0 THEN Len(v.frac)
    ELSE FirstOne(v.frac) + DoubleDigits - 1

\* Round to nearest, ties to even
Round(v) ==
    LET keep == KeptBits(v)
    IN  IF Len(v.frac) <= keep THEN v
        ELSE LET guard == v.frac[keep + 1]
                 sticky == \E i \in (keep + 2) .. Len(v.frac) : v.frac[i] = 1
                 lsb == IF keep = 0 THEN v.int % 2 ELSE v.frac[keep]
                 trunc == SubSeq(v.frac, 1, keep)
                 up == IncBits(trunc)
             IN  IF guard = 1 /\ (sticky \/ lsb = 1)
                 THEN [int |-> v.int + up.carry, frac |-> up.bits]
                 ELSE [int |-> v.int, frac |-> trunc]

\* frac extended with zeros to n bits
Pad(frac, n) == [i \in 1 .. n |-> IF i <= Len(frac) THEN frac[i] ELSE 0]

Max(a, b) == IF a >= b THEN a ELSE b

\* a + b and a - b of two bit sequences of equal length: the bits and the
\* carry (borrow) out of the first bit.  A carry enters bit i when some
\* later bit j produces one (1 + 1) and every bit between passes it on; a
\* borrow when some later bit j needs one (0 - 1) and every bit between
\* passes it on
AddBits(a, b) ==
    LET carry == [i \in 0 .. Len(a) |->
                     IF \E j \in (i + 1) .. Len(a) :
                           /\ a[j] + b[j] = 2
                           /\ \A k \in (i + 1) .. (j - 1) : a[k] + b[k] = 1
                     THEN 1 ELSE 0]
    IN  [bits |-> [i \in 1 .. Len(a) |-> (a[i] + b[i] + carry[i]) % 2],
         carry |-> carry[0]]
SubBits(a, b) ==
    LET borrow == [i \in 0 .. Len(a) |->
                      IF \E j \in (i + 1) .. Len(a) :
                            /\ a[j] < b[j]
                            /\ \A k \in (i + 1) .. (j - 1) : a[k] = b[k]
                      THEN 1 ELSE 0]
    IN  [bits |-> [i \in 1 .. Len(a) |-> (a[i] - b[i] - borrow[i] + 2) % 2],
         carry |-> borrow[0]]

\* The exact sum and (for x >= y) the exact difference
ExactAdd(x, y) ==
    LET n == Max(Len(x.frac), Len(y.frac))
        r == AddBits(Pad(x.frac, n), Pad(y.frac, n))
    IN  [int |-> x.int + y.int + r.carry, frac |-> r.bits]
ExactSub(x, y) ==
    LET n == Max(Len(x.frac), Len(y.frac))
        r == SubBits(Pad(x.frac, n), Pad(y.frac, n))
    IN  [int |-> x.int - y.int - r.carry, frac |-> r.bits]

\* x + y, x - y and x * n (n a double that holds a natural number)
fl_add(x, y) == Round(ExactAdd(x, y))
fl_sub(x, y) == Round(ExactSub(x, y))
RECURSIVE ExactTimes(_, _)
ExactTimes(x, n) == IF n = 0 THEN Zero ELSE ExactAdd(ExactTimes(x, n - 1), x)
fl_mul(x, n) == Round(ExactTimes(x, n))

\* 2^i modulo b
RECURSIVE Pow2Mod(_, _)
Pow2Mod(i, b) ==
    IF i = 0 THEN 1 % b
    ELSE IF i % 2 = 0 THEN (Pow2Mod(i \div 2, b) * Pow2Mod(i \div 2, b)) % b
    ELSE (2 * Pow2Mod(i - 1, b)) % b

\* The first n bits of r/b after the binary point (r < b), and the
\* remainder: long division, whose remainder after i bits is r*2^i modulo b
DivBits(r, b, n) ==
    [bits |-> [i \in 1 .. n |-> (2 * ((r * Pow2Mod(i - 1, b)) % b)) \div b],
     rem |-> (r * Pow2Mod(n, b)) % b]

\* Number of zero bits with which r/b starts after the binary point (0 < r < b)
RECURSIVE LeadingZeros(_, _)
LeadingZeros(r, b) == IF 2 * r >= b THEN 0 ELSE 1 + LeadingZeros(2 * r, b)

\* a / b for doubles that hold natural numbers a <= b, b > 0: the quotient
\* bits up to the guard bit, and one more bit that tells whether anything
\* non-zero follows
fl_div(a, b) ==
    IF a = b THEN FromInt(1)
    ELSE IF a = 0 THEN Zero
    ELSE LET d == DivBits(a, b, LeadingZeros(a, b) + DoubleDigits + 1)
         IN  Round([int |-> 0,
                    frac |-> d.bits \o <<IF d.rem # 0 THEN 1 ELSE 0>>])

\* std::floor of a non-negative double, converted to unsigned int
floor(x) == x.int

\* ------------------------------------------------------ global_add_particles
\* Volume of the locally owned active cells of worker w
LocalVolume(tr, w) ==
    LET vol == [i \in 0 .. (Len(ActiveCells(tr)) - 1) |->
                   IF is_locally_owned(tr, w, ActiveCells(tr)[i + 1])
                   THEN measure(ActiveCells(tr)[i + 1]) ELSE 0]
    IN  SumTo(vol, Len(ActiveCells(tr)) - 1)

\* MPI_Allreduce of the local volumes
TotalVolume(tr) == SumTo([w \in Workers |-> LocalVolume(tr, w)], NumWorkers - 1)

\* subdomain_fraction = local_volume/total_volume, with local_volume the
\* local volumes of all workers
subdomain_fraction(local_volume, w) ==
    fl_div(local_volume[w], SumTo(local_volume, NumWorkers - 1))

\* MPI_Scan with MPI_SUM: rank w gets the sum of the fractions of the ranks
\* 0 .. w, added in rank order
RECURSIVE end_fraction(_, _)
end_fraction(local_volume, w) ==
    IF w = 0 THEN subdomain_fraction(local_volume, 0)
    ELSE fl_add(end_fraction(local_volume, w - 1),
                subdomain_fraction(local_volume, w))

\* start_fraction = end_fraction-subdomain_fraction
start_fraction(local_volume, w) ==
    fl_sub(end_fraction(local_volume, w), subdomain_fraction(local_volume, w))

\* start_id and end_id of worker w
start_id(local_volume, w, total_particles) ==
    floor(fl_mul(start_fraction(local_volume, w), total_particles))
end_id(local_volume, w, total_particles) ==
    floor(fl_mul(end_fraction(local_volume, w), total_particles))

\* start_id and end_id of worker w on the mesh tr
StartId(tr, w, total_particles) ==
    start_id([r \in Workers |-> LocalVolume(tr, r)], w, total_particles)
EndId(tr, w, total_particles) ==
    end_id([r \in Workers |-> LocalVolume(tr, r)], w, total_particles)

\* start_id and end_id of every worker
IdRanges(tr, total_particles) ==
    [w \in Workers |-> [start_id |-> StartId(tr, w, total_particles),
                        end_id |-> EndId(tr, w, total_particles)]]

\* Points the random draws of generate_particles_in_subdomain may produce
GenPoints == {3, 6, 9, 12}

\* T new_particle(pt, cur_id), stored under select_cell
NewParticle(select_cell, pt, cur_id) ==
    [cell |-> select_cell, id |-> cur_id, loc |-> pt, vel |-> ZeroPoint,
     local |-> TRUE]

\* Whether the cell fills the bounding box of its vertices.  The child that
\* follows the curved boundary does not: some points drawn in its bounding
\* box are outside it, and point_inside may raise for them.
fills_bounds(c) == c # <<1, 1>>

\* What the random draws for one particle come to.  misses: the number of
\* points drawn outside select_cell before the deciding draw; raises:
\* whether point_inside raises an exception at the deciding draw, which is
\* inside the cell otherwise.
TryCounts == {0, MaxTries - 1, MaxTries}
Draws(c) ==
    IF fills_bounds(c) THEN {[misses |-> 0, raises |-> FALSE]}
    ELSE {[misses |-> k, raises |-> r] : k \in TryCounts, r \in BOOLEAN}
AllDraws == UNION {Draws(c) : c \in AllCells}

\* num_tries when the while loop is left
num_tries(draw) == IF draw.misses < MaxTries THEN draw.misses ELSE MaxTries

\* How the loop ends: "abort" is the MPI_Abort of the catch block, "throw"
\* the AssertThrow after the loop, "ok" a point inside the cell
sampling(draw) ==
    IF draw.misses < MaxTries /\ draw.raises THEN "abort"
    ELSE IF num_tries(draw) < MaxTries THEN "ok"
    ELSE "throw"

\* The loop over the particles: particles cur_id .. stop_id-1 are put in the
\* cells select_cell[id] at the points pt[id] until a sampling fails
RECURSIVE GenerateLoop(_, _, _, _, _, _)
GenerateLoop(m, cur_id, stop_id, select_cell, pt, draw) ==
    IF cur_id >= stop_id THEN [m |-> m, status |-> "ok"]
    ELSE IF sampling(draw[cur_id]) # "ok"
    THEN [m |-> m, status |-> sampling(draw[cur_id])]
    ELSE GenerateLoop(
             MapInsert(m, NewParticle(select_cell[cur_id], MkPoint(pt[cur_id]), cur_id)),
             cur_id + 1, stop_id, select_cell, pt, draw)

\* generate_particles_in_subdomain that fails when it is asked for no
\* particle (a roulette wheel that must not be empty)
generate_particles_in_subdomain_NotEmpty(m, cur_id, stop_id, select_cell, pt, draw) ==
    IF cur_id >= stop_id THEN [m |-> m, status |-> "throw"]
    ELSE GenerateLoop(m, cur_id, stop_id, select_cell, pt, draw)

\* generate_particles_in_subdomain(stop_id - cur_id, cur_id): the container
\* afterwards and how the call ended
generate_particles_in_subdomain(m, cur_id, stop_id, select_cell, pt, draw) ==
    GenerateLoop(m, cur_id, stop_id, select_cell, pt, draw)

\* ------------------------------------------------------------------- state
VARIABLES
    tria,                   \* the triangulation: refinement and cell owners
    kind,                   \* the integrator class given to set_integrator
    particles,              \* _particles of every worker
    integ,                  \* the integrator object of every worker
    triangulation_changed,  \* _triangulation_changed of every worker
    global_sum_particles,   \* global_sum_particles of every worker
    pc,                     \* where every worker is in advance_timestep
    continue_integrator,    \* the local flag of advance_timestep
    timestep, solution,     \* the arguments of the running advance_timestep
    mesh_status,            \* "new": no advance_timestep has finished yet;
                            \* "changed": post_refinement was signalled after
                            \* the last advance_timestep; "same": it was not
    last_found,             \* per worker, what the last find_all_cells did
                            \* with every entry: hint, handle, route
    iterations,             \* per worker, the passes through the loop of the
                            \* running (or last) advance_timestep
    bench                   \* integrator driven directly (no World)

vars == <<tria, kind, particles, integ, triangulation_changed,
          global_sum_particles, pc, continue_integrator, timestep, solution,
          mesh_status, last_found, iterations, bench>>

worldvars == <<tria, kind, particles, integ, triangulation_changed,
               global_sum_particles, pc, continue_integrator, timestep,
               solution, mesh_status, last_found, iterations>>

BenchOff == [on |-> FALSE]

\* World::World, set_triangulation, set_integrator, init
InitWorld ==
    /\ tria \in Meshes
    /\ kind \in Kinds
    /\ particles = [w \in Workers |-> << >>]
    /\ integ = [w \in Workers |-> NewIntegrator]
    /\ triangulation_changed = [w \in Workers |-> TRUE]
    /\ global_sum_particles = [w \in Workers |-> 0]
    /\ pc = [w \in Workers |-> "new"]
    /\ continue_integrator = [w \in Workers |-> TRUE]
    /\ timestep = 1
    /\ solution = <<0, 6>>
    /\ mesh_status = "new"
    /\ last_found = [w \in Workers |-> << >>]
    /\ iterations = [w \in Workers |-> 0]

Init == InitWorld /\ bench = BenchOff

AllAt(states) == \A w \in Workers : pc[w] \in states

\* Between two collectives a worker reads and writes only its own members,
\* so the order in which different workers take their local steps does not
\* matter: the local steps are taken in rank order, a worker running on to
\* its next collective before the next rank starts.
AtCollective(w) == pc[w] \in {"exchange0", "exchange", "check"}
Turn(w) == \A r \in 0 .. (w - 1) : AtCollective(r) \/ pc[r] = "thrown"

\* ----------------------------------------------------------------- actions
\* global_add_particles(total_particles) on all workers.  A worker whose
\* AssertThrow fires leaves the call by the exception ("thrown"), the others
\* return ("idle"); MPI_Abort ends all workers ("aborted").
GlobalAddParticles(total_particles) ==
    /\ AllAt({"new"})
    /\ \E ids \in {IdRanges(tria, total_particles)} :
       \E select_cell \in [0 .. (total_particles - 1) -> AllCells] :
          /\ \A w \in Workers :
                \A id \in ids[w].start_id .. (ids[w].end_id - 1) :
                   is_locally_owned(tria, w, select_cell[id])
          /\ \E pt \in [0 .. (total_particles - 1) -> GenPoints] :
                /\ \A id \in 0 .. (total_particles - 1) :
                      point_inside(select_cell[id], MkPoint(pt[id]))
                /\ \E draw \in [0 .. (total_particles - 1) -> AllDraws] :
                      /\ \A id \in 0 .. (total_particles - 1) :
                            draw[id] \in Draws(select_cell[id])
                      /\ LET gen == [w \in Workers |->
                                generate_particles_in_subdomain(particles[w],
                                    ids[w].start_id, ids[w].end_id,
                                    select_cell, pt, draw)]
                             aborted == \E w \in Workers : gen[w].status = "abort"
                         IN  /\ particles' = IF aborted THEN particles
                                             ELSE [w \in Workers |-> gen[w].m]
                             /\ pc' = [w \in Workers |->
                                         IF aborted THEN "aborted"
                                         ELSE IF gen[w].status = "throw"
                                         THEN "thrown" ELSE "idle"]
    /\ global_sum_particles' = [w \in Workers |-> total_particles]
    /\ UNCHANGED <<tria, kind, integ, triangulation_changed,
                   continue_integrator, timestep, solution, mesh_status,
                   last_found,
                   iterations, bench>>

\* The mesh provider refines, coarsens or repartitions between two
\* timesteps and fires post_refinement, which calls mesh_changed
MeshChange(new_tria) ==
    /\ AllAt({"new", "idle", "done"})
    /\ new_tria # tria
    /\ tria' = new_tria
    /\ triangulation_changed' = [w \in Workers |-> TRUE]
    /\ mesh_status' = IF mesh_status = "new" THEN "new" ELSE "changed"
    /\ UNCHANGED <<kind, particles, integ, global_sum_particles, pc,
                   continue_integrator, timestep, solution, last_found,
                   iterations, bench>>

\* advance_timestep(timestep, solution) is entered on all workers that
\* returned from their last call
AdvanceTimestep(dt, sol) ==
    /\ AllAt({"idle", "done", "thrown"})
    /\ \E w \in Workers : pc[w] # "thrown"
    /\ timestep' = dt
    /\ solution' = sol
    /\ continue_integrator' = [w \in Workers |-> TRUE]
    /\ pc' = [w \in Workers |->
                 IF pc[w] = "thrown" THEN "thrown" ELSE "relocate0"]
    /\ iterations' = [w \in Workers |->
                         IF pc[w] = "thrown" THEN iterations[w] ELSE 0]
    /\ UNCHANGED <<tria, kind, particles, integ, triangulation_changed,
                   global_sum_particles, mesh_status, last_found, bench>>

\* What last_found keeps of one pass of find_all_cells
FoundLog(tr, w, changed, m) ==
    LET loc == Located(tr, w, changed, m)
    IN  [i \in 1 .. Len(m) |->
            [id |-> m[i].id, hint |-> m[i].cell, loc |-> m[i].loc,
             found |-> loc[i].found, route |-> loc[i].route]]

\* advance_timestep that never calls send_recv_particles before its loop
AfterInitialRelocate_NoExchange(changed) == "fixup0"

\* if (_triangulation_changed) send_recv_particles();
AfterInitialRelocate(changed) == IF changed THEN "exchange0" ELSE "fixup0"

\* find_all_cells() at the head of advance_timestep
InitialRelocate(w) ==
    /\ pc[w] = "relocate0"
    /\ Turn(w)
    /\ particles' = [particles EXCEPT ![w] =
          find_all_cells(tria, w, triangulation_changed[w], particles[w])]
    /\ last_found' = [last_found EXCEPT ![w] =
          FoundLog(tria, w, triangulation_changed[w], particles[w])]
    /\ pc' = [pc EXCEPT ![w] = AfterInitialRelocate(triangulation_changed[w])]
    /\ UNCHANGED <<tria, kind, integ, triangulation_changed,
                   global_sum_particles, continue_integrator, timestep,
                   solution, mesh_status,
                   iterations, bench>>

\* send_recv_particles() after the first find_all_cells, on all workers
InitialExchange ==
    /\ AllAt({"exchange0"})
    /\ LET r == send_recv_particles(tria, triangulation_changed, kind,
                                    particles, integ)
       IN  /\ particles' = r.m
           /\ integ' = r.g
    /\ pc' = [w \in Workers |-> "fixup0"]
    /\ UNCHANGED <<tria, kind, triangulation_changed, global_sum_particles,
                   continue_integrator, timestep, solution, mesh_status,
                   last_found,
                   iterations, bench>>

\* move_particles_back_in_mesh() before the loop: an empty function
InitialFixup(w) ==
    /\ pc[w] = "fixup0"
    /\ Turn(w)
    /\ pc' = [pc EXCEPT ![w] = "sample"]
    /\ UNCHANGED <<tria, kind, particles, integ, triangulation_changed,
                   global_sum_particles, continue_integrator, timestep,
                   solution, mesh_status, last_found,
                   iterations, bench>>

\* get_particle_velocities(solution)
Sample(w) ==
    /\ pc[w] = "sample"
    /\ Turn(w)
    /\ \E junk \in Velocities :
          particles' = [particles EXCEPT ![w] =
              get_particle_velocities(tria, solution, particles[w], junk)]
    /\ pc' = [pc EXCEPT ![w] = "integrate"]
    /\ iterations' = [iterations EXCEPT ![w] = iterations[w] + 1]
    /\ UNCHANGED <<tria, kind, integ, triangulation_changed,
                   global_sum_particles, continue_integrator, timestep,
                   solution, mesh_status, last_found, bench>>

\* continue_integrator = _integrator->integrate_step(_particles, timestep)
Integrate(w) ==
    /\ pc[w] = "integrate"
    /\ Turn(w)
    /\ LET r == integrate_step(kind, integ[w], particles[w], timestep)
       IN  /\ particles' = [particles EXCEPT ![w] = r.m]
           /\ integ' = [integ EXCEPT ![w] = r.g]
           /\ continue_integrator' = [continue_integrator EXCEPT ![w] = r.ret]
    /\ pc' = [pc EXCEPT ![w] = "relocate"]
    /\ UNCHANGED <<tria, kind, triangulation_changed, global_sum_particles,
                   timestep, solution, mesh_status, last_found,
                   iterations, bench>>

\* find_all_cells() inside the loop
Relocate(w) ==
    /\ pc[w] = "relocate"
    /\ Turn(w)
    /\ particles' = [particles EXCEPT ![w] =
          find_all_cells(tria, w, triangulation_changed[w], particles[w])]
    /\ last_found' = [last_found EXCEPT ![w] =
          FoundLog(tria, w, triangulation_changed[w], particles[w])]
    /\ pc' = [pc EXCEPT ![w] = "fixup"]
    /\ UNCHANGED <<tria, kind, integ, triangulation_changed,
                   global_sum_particles, continue_integrator, timestep,
                   solution, mesh_status,
                   iterations, bench>>

\* move_particles_back_in_mesh() inside the loop: an empty function
Fixup(w) ==
    /\ pc[w] = "fixup"
    /\ Turn(w)
    /\ pc' = [pc EXCEPT ![w] = "exchange"]
    /\ UNCHANGED <<tria, kind, particles, integ, triangulation_changed,
                   global_sum_particles, continue_integrator, timestep,
                   solution, mesh_status, last_found,
                   iterations, bench>>

\* AfterExchange leaving the loop after its first pass
AfterExchange_NoLoop(cont) == "check"

\* while (continue_integrator) ... ; check_particle_count();
AfterExchange(cont) == IF cont THEN "sample" ELSE "check"

\* send_recv_particles() inside the loop, on all workers
Exchange ==
    /\ AllAt({"exchange"})
    /\ LET r == send_recv_particles(tria, triangulation_changed, kind,
                                    particles, integ)
       IN  /\ particles' = r.m
           /\ integ' = r.g
    /\ pc' = [w \in Workers |-> AfterExchange(continue_integrator[w])]
    /\ UNCHANGED <<tria, kind, triangulation_changed, global_sum_particles,
                   continue_integrator, timestep, solution, mesh_status,
                   last_found,
                   iterations, bench>>

\* check_particle_count() on all workers: the MPI_Allreduce and the
\* AssertThrow; advance_timestep returns ("done") or throws ("failed")
CheckParticleCount ==
    /\ AllAt({"check"})
    /\ pc' = [w \in Workers |->
                 IF CountMatches(get_global_particle_count(particles),
                                 global_sum_particles[w])
                 THEN "done" ELSE "failed"]
    /\ mesh_status' =
          IF \A w \in Workers :
                CountMatches(get_global_particle_count(particles),
                             global_sum_particles[w])
          THEN "same" ELSE mesh_status
    /\ UNCHANGED <<tria, kind, particles, integ, triangulation_changed,
                   global_sum_particles, continue_integrator, timestep,
                   solution, last_found,
                   iterations, bench>>

TimeSteps == {1}

Next ==
    \/ \E n \in 0 .. NumParticles : GlobalAddParticles(n)
    \/ \E t \in Meshes : MeshChange(t)
    \/ \E dt \in TimeSteps, sol \in Solutions : AdvanceTimestep(dt, sol)
    \/ \E w \in Workers : InitialRelocate(w)
    \/ InitialExchange
    \/ \E w \in Workers : InitialFixup(w)
    \/ \E w \in Workers : Sample(w)
    \/ \E w \in Workers : Integrate(w)
    \/ \E w \in Workers : Relocate(w)
    \/ \E w \in Workers : Fixup(w)
    \/ Exchange
    \/ CheckParticleCount

Spec == Init /\ [][Next]_vars

\* ------------------------------------------- the integrator driven directly
\* An integrator object and a container outside any World: velocities are
\* sampled (BenchSample) and integrate_step is called (BenchStep) in turn.
\* p0 and vs record, per identifier, the position at the start of the
\* running cycle and the velocities sampled since then.
BenchTimeSteps == {1, 2}

BenchParticle(id) ==
    [cell |-> IF 3 * id <= 6 THEN <<0, 0>> ELSE <<0, 1>>, id |-> id,
     loc |-> MkPoint(3 * id), vel |-> ZeroPoint, local |-> TRUE]

InitInt ==
    /\ InitWorld
    /\ tria = [refined |-> FALSE, owner |-> PartitionOf(FALSE, 0)]
    /\ kind = "Euler"
    /\ \E k \in Kinds, n \in {0, NumParticles}, dt \in BenchTimeSteps :
          bench = [on |-> TRUE, kind |-> k, g |-> NewIntegrator,
                   m |-> [i \in 1 .. n |-> BenchParticle(i - 1)],
                   dt |-> dt, ret |-> FALSE, sampled |-> FALSE, calls |-> 0,
                   p0 |-> << >>, vs |-> << >>]

BenchIds == {bench.m[i].id : i \in 1 .. Len(bench.m)}

\* The velocities are sampled at the current positions
BenchSample(sol) ==
    /\ bench.on
    /\ ~bench.sampled
    /\ bench.calls < MaxCalls
    /\ LET v == [id \in BenchIds |->
                    LET i == CHOOSE j \in 1 .. Len(bench.m) : bench.m[j].id = id
                    IN  MkPoint(sol[Region(bench.m[i].loc)])]
           p == [id \in BenchIds |->
                    LET i == CHOOSE j \in 1 .. Len(bench.m) : bench.m[j].id = id
                    IN  bench.m[i].loc]
       IN  bench' = [bench EXCEPT
              !.m = [i \in 1 .. Len(bench.m) |->
                        [bench.m[i] EXCEPT !.vel = v[bench.m[i].id]]],
              !.sampled = TRUE,
              !.p0 = IF bench.ret THEN bench.p0 ELSE p,
              !.vs = IF bench.ret THEN Append(bench.vs, v) ELSE <<v>>]
    /\ UNCHANGED worldvars

\* integrate_step(particles, dt)
BenchStep ==
    /\ bench.on
    /\ bench.sampled
    /\ LET r == integrate_step(bench.kind, bench.g, bench.m, bench.dt)
       IN  bench' = [bench EXCEPT !.m = r.m, !.g = r.g, !.ret = r.ret,
                                  !.sampled = FALSE, !.calls = bench.calls + 1]
    /\ UNCHANGED worldvars

NextInt ==
    \/ \E sol \in Solutions : BenchSample(sol)
    \/ BenchStep

SpecInt == InitInt /\ [][NextInt]_vars

\* ---------------------------------------------- find_cell called directly
\* find_cell is called once (FindCellCall) on worker bench.w for a particle
\* at bench.loc whose container key is bench.cur_cell, with the member
\* _triangulation_changed equal to bench.changed; bench.res is what it gave.
ProbePoints == {x - 1 : x \in 0 .. 15}

InitFind ==
    /\ InitWorld
    /\ kind = "Euler"
    /\ \E w \in Workers, changed \in BOOLEAN, x \in ProbePoints,
          cur_cell \in AllCells \cup {NoCell} :
          bench = [on |-> FALSE, fn |-> "find_cell", w |-> w,
                   changed |-> changed, loc |-> MkPoint(x),
                   cur_cell |-> cur_cell, called |-> FALSE,
                   res |-> [cell |-> cur_cell, local |-> FALSE, route |-> "none"]]

FindCellCall ==
    /\ ~bench.on
    /\ bench.fn = "find_cell"
    /\ ~bench.called
    /\ bench' = [bench EXCEPT
          !.called = TRUE,
          !.res = find_cell(tria, bench.w, bench.changed, bench.loc,
                            bench.cur_cell)]
    /\ UNCHANGED worldvars

NextFind == FindCellCall

SpecFind == InitFind /\ [][NextFind]_vars

\* ------------------------------ the identifiers of global_add_particles
\* The computation of start_id and end_id in global_add_particles is done
\* once (IdCall) for workers whose locally owned cells have the volumes
\* bench.local_volume (0 for a worker that owns no cell) and for
\* bench.total_particles particles; bench.ids is what every worker got.
InitIds ==
    /\ InitWorld
    /\ tria = [refined |-> FALSE, owner |-> PartitionOf(FALSE, 0)]
    /\ kind = "Euler"
    /\ \E local_volume \in [Workers -> 0 .. MaxVolume],
          total_particles \in 0 .. NumParticles :
          /\ SumTo(local_volume, NumWorkers - 1) > 0
          /\ bench = [on |-> FALSE, fn |-> "global_add_particles",
                      local_volume |-> local_volume,
                      total_particles |-> total_particles, called |-> FALSE,
                      ids |-> [w \in Workers |-> [start_id |-> 0, end_id |-> 0]]]

IdCall ==
    /\ ~bench.on
    /\ bench.fn = "global_add_particles"
    /\ ~bench.called
    /\ bench' = [bench EXCEPT
          !.called = TRUE,
          !.ids = [w \in Workers |->
                      [start_id |-> start_id(bench.local_volume, w,
                                             bench.total_particles),
                       end_id |-> end_id(bench.local_volume, w,
                                         bench.total_particles)]]]
    /\ UNCHANGED worldvars

NextIds == IdCall

SpecIds == InitIds /\ [][NextIds]_vars

\* ------------------------------- integrate_step for any value of _step
\* integrate_step is called once (StepCall) on an integrator object whose
\* member _step holds bench.step0, any value of its type up to MaxStep, for
\* a container of particles with the velocity bench.vel.  bench.before is
\* the container before the call; bench.outcome tells how the call ended:
\* every path through integrate_step ends in its return statement.
ValidSteps(k) ==
    CASE k = "Euler" -> 0 .. MaxStep
      [] k = "RK2" -> 0 .. 1
      [] k = "RK4" -> 0 .. 3

InitStep ==
    /\ InitWorld
    /\ tria = [refined |-> FALSE, owner |-> PartitionOf(FALSE, 0)]
    /\ kind = "Euler"
    /\ \E k \in Kinds, step0 \in 0 .. MaxStep, dt \in BenchTimeSteps,
          vel \in Velocities :
          LET m == [i \in 1 .. NumParticles |->
                       [BenchParticle(i - 1) EXCEPT !.vel = MkPoint(vel)]]
          IN  bench = [on |-> FALSE, fn |-> "integrate_step", kind |-> k,
                       step0 |-> step0, vel |-> vel, dt |-> dt,
                       g |-> [NewIntegrator EXCEPT !.step = step0],
                       before |-> m, m |-> m, called |-> FALSE,
                       outcome |-> "none", ret |-> FALSE]

StepCall ==
    /\ ~bench.on
    /\ bench.fn = "integrate_step"
    /\ ~bench.called
    /\ LET r == integrate_step(bench.kind, bench.g, bench.m, bench.dt)
       IN  bench' = [bench EXCEPT !.called = TRUE, !.m = r.m, !.g = r.g,
                                  !.ret = r.ret, !.outcome = "returned"]
    /\ UNCHANGED worldvars

NextStep == StepCall

SpecStep == InitStep /\ [][NextStep]_vars

\* ------------------- advance_timestep on cells of any measure
\* The meshes of Meshes have cells of equal measure, so that every
\* subdomain_fraction is a multiple of 1/4 and no sum or product of
\* global_add_particles is rounded.  Here cell->measure() is not tied to
\* the cell's extent along the one axis of the model: the locally owned
\* cells of worker w measure bench.local_volume[w] together, any value up
\* to MaxVolume.  GenerateMeasured is global_add_particles on such a mesh,
\* and the advance_timestep that follows is the one of Spec.
InitLost ==
    /\ InitWorld
    /\ tria = [refined |-> TRUE, owner |-> PartitionOf(TRUE, 0)]
    /\ kind = "Euler"
    /\ \E local_volume \in [Workers -> 1 .. MaxVolume] :
          bench = [on |-> FALSE, fn |-> "advance_timestep",
                   local_volume |-> local_volume]

\* global_add_particles(total_particles) on all workers: worker w puts the
\* particles start_id .. end_id-1 at the point pt[w] of its cell
\* select_cell[w], every sampling hitting the cell at its first draw
GenerateMeasured(total_particles) ==
    /\ ~bench.on
    /\ bench.fn = "advance_timestep"
    /\ AllAt({"new"})
    /\ \E ids \in {[w \in Workers |->
                      [start_id |-> start_id(bench.local_volume, w,
                                             total_particles),
                       end_id |-> end_id(bench.local_volume, w,
                                         total_particles)]]} :
       \E select_cell \in [Workers -> AllCells], pt \in [Workers -> GenPoints] :
          /\ \A w \in Workers :
                /\ is_locally_owned(tria, w, select_cell[w])
                /\ point_inside(select_cell[w], MkPoint(pt[w]))
          /\ particles' = [w \in Workers |->
                generate_particles_in_subdomain(particles[w],
                    ids[w].start_id, ids[w].end_id,
                    [id \in 0 .. total_particles |-> select_cell[w]],
                    [id \in 0 .. total_particles |-> pt[w]],
                    [id \in 0 .. total_particles |->
                        [misses |-> 0, raises |-> FALSE]]).m]
    /\ global_sum_particles' = [w \in Workers |-> total_particles]
    /\ pc' = [w \in Workers |-> "idle"]
    /\ UNCHANGED <<tria, kind, integ, triangulation_changed,
                   continue_integrator, timestep, solution, mesh_status,
                   last_found,
                   iterations, bench>>

NextLost ==
    \/ \E n \in 0 .. NumParticles : GenerateMeasured(n)
    \/ \E dt \in TimeSteps, sol \in Solutions : AdvanceTimestep(dt, sol)
    \/ \E w \in Workers : InitialRelocate(w)
    \/ InitialExchange
    \/ \E w \in Workers : InitialFixup(w)
    \/ \E w \in Workers : Sample(w)
    \/ \E w \in Workers : Integrate(w)
    \/ \E w \in Workers : Relocate(w)
    \/ \E w \in Workers : Fixup(w)
    \/ Exchange
    \/ CheckParticleCount

SpecLost == InitLost /\ [][NextLost]_vars

\* ------------------------- a record written by one worker, read by another
\* The integrator bench.g of the sending worker is in the middle of a cycle:
\* its counter is bench.g.step and the maps filled by then hold, for every
\* particle of bench.es, the values drawn in InitWire.  WireCall writes one
\* record for every particle of bench.es as the send loop of
\* send_recv_particles does, and reads them as its receive loop does on the
\* worker bench.w, whose integrator bench.h holds older values or nothing.
WireValues == {3 - 6, 0, 9}

\* The maps of an integrator that has made stage calls of its cycle for the
\* particles with the identifiers ids, with the values a
WireIntegrator(k, stage, ids, a) ==
    [step |-> stage,
     loc0 |-> IF k # "Euler" /\ stage >= 1
              THEN [id \in ids |-> MkPoint(a[1] + 3 * id)] ELSE EmptyMap,
     k1 |-> IF k = "RK4" /\ stage >= 1
            THEN [id \in ids |-> MkPoint(a[2] + 3 * id)] ELSE EmptyMap,
     k2 |-> IF k = "RK4" /\ stage >= 2
            THEN [id \in ids |-> MkPoint(a[3] + 3 * id)] ELSE EmptyMap,
     k3 |-> IF k = "RK4" /\ stage >= 3
            THEN [id \in ids |-> MkPoint(a[4] + 3 * id)] ELSE EmptyMap]

Stages(k) == CASE k = "Euler" -> {0} [] k = "RK2" -> {0, 1} [] k = "RK4" -> 0 .. 3

InitWire ==
    /\ InitWorld
    /\ tria = [refined |-> FALSE, owner |-> PartitionOf(FALSE, 0)]
    /\ kind = "Euler"
    /\ \E k \in Kinds, a \in [1 .. 4 -> WireValues], old \in BOOLEAN,
          w \in Workers :
       \E stage \in Stages(k) :
          bench = [on |-> FALSE, fn |-> "wire", kind |-> k, w |-> w,
                   es |-> [i \in 1 .. NumParticles |->
                              [BenchParticle(i - 1) EXCEPT
                                  !.vel = MkPoint(6), !.local = FALSE]],
                   g |-> WireIntegrator(k, stage, 0 .. (NumParticles - 1), a),
                   h |-> IF old
                         THEN WireIntegrator(k, stage, {0}, [j \in 1 .. 4 |-> 6])
                         ELSE [NewIntegrator EXCEPT !.step = stage],
                   called |-> FALSE]

\* One record written at the byte offset p0 and read there again: the
\* pointers the two calls return
WireOne(k, g, h, e, p0) ==
    LET pbuf == [i \in 1 .. (p0 \div SizeofDouble) |-> 0]
        wr == integrator_write_data(k, g, e.id, p0)
        rd == integrator_read_data(k, h, e.id, pbuf \o wr.out, p0)
    IN  [wp |-> wr.p, rp |-> rd.p, h |-> rd.g]

WireCall ==
    /\ ~bench.on
    /\ bench.fn = "wire"
    /\ ~bench.called
    /\ LET sent == FillSendData(bench.kind, bench.g, bench.es, 1, << >>)
           recv == PutInDomain(tria, bench.w, TRUE, bench.kind, bench.h,
                               << >>, sent.buf, Len(bench.es), 0)
       IN  bench' = [on |-> FALSE, fn |-> "wire", kind |-> bench.kind,
                     w |-> bench.w, es |-> bench.es, g |-> bench.g,
                     h |-> bench.h, called |-> TRUE,
                     send_data |-> sent.buf, g_sent |-> sent.g,
                     m_recv |-> recv.m, h_recv |-> recv.g,
                     one |-> [i \in 1 .. Len(bench.es) |->
                                 WireOne(bench.kind, bench.g, bench.h,
                                         bench.es[i],
                                         (i - 1) * SizeofDouble)]]
    /\ UNCHANGED worldvars

NextWire == WireCall

SpecWire == InitWire /\ [][NextWire]_vars

\* --------------------------------- get_particle_velocities called directly
\* get_particle_velocities(solution) is called once (VelocityCall) on a
\* worker whose container bench.before holds up to NumParticles + 1
\* particles under active cells of the refined mesh, several of them under
\* one cell or under different cells; bench.calls are the calls of the
\* evaluator and bench.after is the container afterwards.
VelEntries ==
    {e \in [cell : ActiveSet([refined |-> TRUE]),
            loc : {MkPoint(y) : y \in GenPoints}] :
        point_inside(e.cell, e.loc)}

VelContainers ==
    {[i \in DOMAIN f |->
         [cell |-> f[i].cell, id |-> i - 1, loc |-> f[i].loc,
          vel |-> ZeroPoint, local |-> TRUE]] :
        f \in UNION {[1 .. n -> VelEntries] : n \in 0 .. (NumParticles + 1)}}

InitVel ==
    /\ InitWorld
    /\ tria = [refined |-> TRUE, owner |-> PartitionOf(TRUE, 0)]
    /\ kind = "Euler"
    /\ \E es \in VelContainers, sol \in Solutions :
          bench = [on |-> FALSE, fn |-> "get_particle_velocities",
                   before |-> MapInsertAll(<< >>, es), sol |-> sol,
                   called |-> FALSE]

VelocityCall ==
    /\ ~bench.on
    /\ bench.fn = "get_particle_velocities"
    /\ ~bench.called
    /\ \E junk \in Velocities :
          bench' = [on |-> FALSE, fn |-> "get_particle_velocities",
                    before |-> bench.before, sol |-> bench.sol,
                    called |-> TRUE,
                    calls |-> VelocityBatches(bench.before, 1),
                    after |-> get_particle_velocities(tria, bench.sol,
                                                      bench.before, junk)]
    /\ UNCHANGED worldvars

NextVel == VelocityCall

SpecVel == InitVel /\ [][NextVel]_vars

\* ------------------------------------------------- the record built by init
\* init is called once (InitCall) for the integrator bench.kind and a
\* particle type whose add_mpi_types appends the descriptors bench.particle,
\* any list of up to MaxFields descriptors of 1 .. Dim + 1 elements of 1 or
\* sizeof(double) bytes.  bench.data_info, bench.block_lens and
\* bench.indices are what init hands to MPI_Type_struct.
MaxFields == 3

FieldInfos ==
    {MPIDataInfo("field", n, s) : n \in 1 .. (Dim + 1), s \in {1, SizeofDouble}}

InitLayout ==
    /\ InitWorld
    /\ tria = [refined |-> FALSE, owner |-> PartitionOf(FALSE, 0)]
    /\ kind = "Euler"
    /\ \E k \in Kinds,
          pd \in UNION {[1 .. n -> FieldInfos] : n \in 0 .. MaxFields} :
          bench = [on |-> FALSE, fn |-> "init", kind |-> k, particle |-> pd,
                   called |-> FALSE]

InitCall ==
    /\ ~bench.on
    /\ bench.fn = "init"
    /\ ~bench.called
    /\ LET data_info == bench.particle \o integrator_add_mpi_types(bench.kind)
       IN  bench' = [on |-> FALSE, fn |-> "init", kind |-> bench.kind,
                     particle |-> bench.particle, called |-> TRUE,
                     data_info |-> data_info,
                     block_lens |-> [i \in 1 .. Len(data_info) |->
                                        data_info[i].num_elems],
                     indices |-> [i \in 1 .. Len(data_info) |->
                                     indices(data_info, i)]]
    /\ UNCHANGED worldvars

NextLayout == InitCall

SpecLayout == InitLayout /\ [][NextLayout]_vars

\* ------------------------------ the loop of advance_timestep beside a
\* reference in which no particle changes its worker
\* bench.parts and bench.gs are the containers and integrators of the
\* workers after global_add_particles on owned cells that measure
\* bench.local_volume (see InitLost), worker w having put its particles at
\* one point of its cell.  CycleSample and CycleStep are the body of the
\* loop of advance_timestep on all workers.  bench.refs follows every
\* particle on an integrator of its own that holds no other particle and
\* never hands it over, from the start of the running cycle on; alive tells
\* whether it has stayed inside the mesh.
\* bench.mig names the particles (worker, identifier) a worker received and
\* kept in an exchange of the running cycle while it held no other particle
\* of that identifier; bench.final gives, when the cycle ends, the
\* positions the last integrate_step gave them.
CycleKinds == {"RK2", "RK4"}

InMesh(tr, loc) == \E c \in ActiveSet(tr) : point_inside(c, loc)

\* The particles of workers 0 .. w, each beside an integrator of its own
RECURSIVE CycleRefs(_, _)
CycleRefs(parts, w) ==
    IF w < 0 THEN << >>
    ELSE CycleRefs(parts, w - 1)
         \o [i \in 1 .. Len(parts[w]) |->
                [e |-> parts[w][i], g |-> NewIntegrator, alive |-> TRUE]]

InitCycle ==
    /\ InitWorld
    /\ tria = [refined |-> TRUE, owner |-> PartitionOf(TRUE, 0)]
    /\ kind = "Euler"
    /\ \E local_volume \in [Workers -> 1 .. MaxVolume] :
       \E ids \in {[w \in Workers |->
                      [start_id |-> start_id(local_volume, w, NumParticles),
                       end_id |-> end_id(local_volume, w, NumParticles)]]} :
       \E k \in CycleKinds, dt \in BenchTimeSteps,
          select_cell \in {f \in [Workers -> AllCells] :
                              \A w \in Workers :
                                 is_locally_owned(tria, w, f[w])} :
       \E pt \in {f \in [Workers -> GenPoints] :
                     \A w \in Workers :
                        point_inside(select_cell[w], MkPoint(f[w]))} :
          LET hit == [id \in 0 .. NumParticles |->
                         [misses |-> 0, raises |-> FALSE]]
              parts == [w \in Workers |->
                 generate_particles_in_subdomain(<< >>,
                     ids[w].start_id, ids[w].end_id,
                     [id \in 0 .. NumParticles |-> select_cell[w]],
                     [id \in 0 .. NumParticles |-> pt[w]], hit).m]
          IN  bench = [on |-> FALSE, fn |-> "cycle", kind |-> k,
                       dt |-> dt, parts |-> parts,
                       gs |-> [w \in Workers |-> NewIntegrator],
                       refs |-> CycleRefs(parts, NumWorkers - 1),
                       sampled |-> FALSE, ret |-> FALSE, calls |-> 0,
                       mig |-> {}, final |-> {}]

\* get_particle_velocities(solution) on all workers
CycleSample(sol) ==
    /\ ~bench.on
    /\ bench.fn = "cycle"
    /\ ~bench.sampled
    /\ bench.calls < MaxCalls
    /\ LET refs == IF bench.ret THEN bench.refs
                   ELSE CycleRefs(bench.parts, NumWorkers - 1)
       IN  bench' = [bench EXCEPT
              !.parts = [w \in Workers |->
                            get_particle_velocities(tria, sol,
                                                    bench.parts[w], 0)],
              !.refs = [x \in DOMAIN refs |->
                           [refs[x] EXCEPT
                               !.e = get_particle_velocities(tria, sol,
                                         <<refs[x].e>>, 0)[1]]],
              !.sampled = TRUE]
    /\ UNCHANGED worldvars

\* integrate_step, find_all_cells, move_particles_back_in_mesh and
\* send_recv_particles on all workers
CycleStep ==
    /\ ~bench.on
    /\ bench.fn = "cycle"
    /\ bench.sampled
    /\ LET r == [w \in Workers |->
                    integrate_step(bench.kind, bench.gs[w], bench.parts[w],
                                   bench.dt)]
           found == [w \in Workers |-> find_all_cells(tria, w, TRUE, r[w].m)]
           x == send_recv_particles(tria, [w \in Workers |-> TRUE],
                                    bench.kind, found,
                                    [w \in Workers |-> r[w].g])
           ref == [i \in DOMAIN bench.refs |->
                      integrate_step(bench.kind, bench.refs[i].g,
                                     <<bench.refs[i].e>>, bench.dt)]
       IN  bench' = [bench EXCEPT
              !.parts = x.m,
              !.gs = x.g,
              !.refs = [i \in DOMAIN bench.refs |->
                           [e |-> [ref[i].m[1] EXCEPT
                                      !.cell = bench.refs[i].e.cell],
                            g |-> ref[i].g,
                            alive |-> bench.refs[i].alive
                                      /\ InMesh(tria, ref[i].m[1].loc)]],
              !.sampled = FALSE,
              !.ret = r[0].ret,
              !.calls = bench.calls + 1,
              !.mig =
                  IF ~r[0].ret THEN {}
                  ELSE {y \in (IF bench.ret THEN bench.mig ELSE {}) :
                           CountId(x.m[y.w], y.id) = 1}
                       \cup {y \in [w : Workers, id : 0 .. NumParticles] :
                                /\ CountId(x.m[y.w], y.id) = 1
                                /\ CountId(StayingParticles(found[y.w]),
                                           y.id) = 0},
              !.final =
                  IF r[0].ret THEN {}
                  ELSE {[id |-> y.id,
                         loc |-> r[y.w].m[CHOOSE i \in 1 .. Len(r[y.w].m) :
                                             r[y.w].m[i].id = y.id].loc] :
                           y \in {z \in bench.mig :
                                     CountId(bench.parts[z.w], z.id) = 1}}]
    /\ UNCHANGED worldvars

NextCycle ==
    \/ \E sol \in Solutions : CycleSample(sol)
    \/ CycleStep

SpecCycle == InitCycle /\ [][NextCycle]_vars

\* ------------------------------------- send_recv_particles called directly
\* send_recv_particles is called once after find_all_cells has keyed and
\* flagged the particles: up to NumParticles particles with different
\* identifiers, particle id held by worker bench.place[id] at one of
\* ExchangePoints (the last of them lies outside the mesh).  bench.group
\* tells the communicator: "all" is the one of all Workers on the
\* partitioned mesh (ExchangeAll), "one" is a communicator of the single
\* worker 0 that owns every cell (ExchangeAlone); bench.tria is the mesh
\* of the call with its owners.  bench.parts are the
\* containers before the call, bench.num_send the counts every worker
\* announces and bench.after the containers afterwards.
ExchangePoints == GenPoints \cup {15}

OwnedByOne(refined) ==
    [c \in ActiveSet([refined |-> refined]) |-> 0]

\* send_recv_particles in a communicator of one worker (_world_size is 1
\* and rank 0 is _self_rank): the only count announced is _num_send[0]
send_recv_particles_alone(tr, changed, k, m, g) ==
    LET sent == FillSendData(k, g, LeavingParticles(m), 1, << >>)
        num_send == NumSend(0, Len(LeavingParticles(m)))[0]
        \* MPI_Alltoall
        total_recv == num_send
        done == PutInDomain(tr, 0, changed, k, sent.g,
                            StayingParticles(m),
                            SubSeq(sent.buf, 1, total_recv * RecordDoubles(k)),
                            total_recv, 0)
    IN  [m |-> done.m, g |-> done.g, num_send |-> num_send]

InitExchange ==
    /\ InitWorld
    /\ kind = "Euler"
    /\ tria = [refined |-> TRUE, owner |-> PartitionOf(TRUE, 0)]
    /\ \E group \in {"all", "one"} :
          /\ \E k \in Kinds, n \in 0 .. NumParticles :
             \E place \in [0 .. (n - 1) -> IF group = "one" THEN {0} ELSE Workers],
                pt \in [0 .. (n - 1) -> ExchangePoints] :
                LET tr == IF group = "one"
                          THEN [refined |-> TRUE, owner |-> OwnedByOne(TRUE)]
                          ELSE tria
                    held == [w \in Workers |->
                                SelectSeq([i \in 1 .. n |->
                                              NewParticle(<<0, 0>>,
                                                          MkPoint(pt[i - 1]),
                                                          i - 1)],
                                          LAMBDA e : place[e.id] = w)]
                    parts == [w \in Workers |->
                                 find_all_cells(tr, w, TRUE,
                                                MapInsertAll(<< >>, held[w]))]
                IN  bench = [on |-> FALSE, fn |-> "send_recv_particles",
                             group |-> group, tria |-> tr, kind |-> k,
                             parts |-> parts,
                             num_send |-> [w \in Workers |-> 0],
                             after |-> parts, called |-> FALSE]

ExchangeAll ==
    /\ ~bench.on
    /\ bench.fn = "send_recv_particles"
    /\ bench.group = "all"
    /\ ~bench.called
    /\ LET r == send_recv_particles(bench.tria, [w \in Workers |-> TRUE],
                                    bench.kind,
                                    bench.parts,
                                    [w \in Workers |-> NewIntegrator])
       IN  bench' = [bench EXCEPT
              !.called = TRUE,
              !.after = r.m,
              !.num_send = [w \in Workers |->
                  NumSend(w, Len(LeavingParticles(bench.parts[w])))[w]]]
    /\ UNCHANGED worldvars

ExchangeAlone ==
    /\ ~bench.on
    /\ bench.fn = "send_recv_particles"
    /\ bench.group = "one"
    /\ ~bench.called
    /\ LET r == send_recv_particles_alone(bench.tria, TRUE, bench.kind,
                                          bench.parts[0], NewIntegrator)
       IN  bench' = [bench EXCEPT
              !.called = TRUE,
              !.after = [w \in Workers |-> IF w = 0 THEN r.m ELSE << >>],
              !.num_send = [w \in Workers |->
                               IF w = 0 THEN r.num_send ELSE 0]]
    /\ UNCHANGED worldvars

NextExchange ==
    \/ ExchangeAll
    \/ ExchangeAlone

SpecExchange == InitExchange /\ [][NextExchange]_vars

\* ------------------------------------ global_add_particles called repeatedly
\* global_add_particles is called up to twice (GenerateMore) on a World
\* whose workers own cells that measure bench.local_volume (see InitLost);
\* the second call finds the particles of the first in the containers.
\* bench.calls counts the calls.
InitRegen ==
    /\ InitWorld
    /\ tria = [refined |-> TRUE, owner |-> PartitionOf(TRUE, 0)]
    /\ kind = "Euler"
    /\ \E local_volume \in [Workers -> 1 .. MaxVolume] :
          bench = [on |-> FALSE, fn |-> "population",
                   local_volume |-> local_volume, calls |-> 0]

\* global_add_particles(total_particles) on all workers: worker w puts the
\* particles start_id .. end_id-1 at the point pt[w] of its cell
\* select_cell[w], every sampling hitting the cell at its first draw
GenerateMore(total_particles) ==
    /\ ~bench.on
    /\ bench.fn = "population"
    /\ bench.calls < 2
    /\ AllAt({"new", "idle"})
    /\ \E ids \in {[w \in Workers |->
                      [start_id |-> start_id(bench.local_volume, w,
                                             total_particles),
                       end_id |-> end_id(bench.local_volume, w,
                                         total_particles)]]} :
       \E select_cell \in {f \in [Workers -> AllCells] :
                              \A w \in Workers :
                                 is_locally_owned(tria, w, f[w])} :
       \E pt \in {f \in [Workers -> GenPoints] :
                     \A w \in Workers :
                        point_inside(select_cell[w], MkPoint(f[w]))} :
          particles' = [w \in Workers |->
                generate_particles_in_subdomain(particles[w],
                    ids[w].start_id, ids[w].end_id,
                    [id \in 0 .. total_particles |-> select_cell[w]],
                    [id \in 0 .. total_particles |-> pt[w]],
                    [id \in 0 .. total_particles |->
                        [misses |-> 0, raises |-> FALSE]]).m]
    /\ global_sum_particles' = [w \in Workers |-> total_particles]
    /\ pc' = [w \in Workers |-> "idle"]
    /\ bench' = [bench EXCEPT !.calls = bench.calls + 1]
    /\ UNCHANGED <<tria, kind, integ, triangulation_changed,
                   continue_integrator, timestep, solution, mesh_status,
                   last_found, iterations>>

NextRegen == \E n \in 0 .. NumParticles : GenerateMore(n)

SpecRegen == InitRegen /\ [][NextRegen]_vars

\* ================================================================== claims
\* dt * (the velocity sampled before the j-th call of the cycle)
BenchK(j, id) == PScale(bench.dt, bench.vs[j][id])

\* C8: Euler: one integrate_step(dt) call sets every position to p0 + dt*v,
\* returns false and keeps no auxiliary state; the wire length is 0 and
\* read_data and write_data return the buffer pointer they were given and
\* leave the integrator as it was.
C8_Euler ==
    (bench.on /\ bench.kind = "Euler" /\ ~bench.sampled /\ bench.calls > 0) =>
        /\ Len(bench.vs) = 1
        /\ ~bench.ret
        /\ bench.g = NewIntegrator
        /\ \A i \in 1 .. Len(bench.m) :
              bench.m[i].loc =
                 [d \in 1 .. Dim |->
                     bench.p0[bench.m[i].id][d]
                       + bench.dt * bench.vs[1][bench.m[i].id][d]]
        /\ integrator_data_len("Euler") = 0
        /\ \A i \in 1 .. Len(bench.m), p \in {0, particle_data_len} :
              /\ integrator_write_data("Euler", bench.g, bench.m[i].id, p)
                    = [out |-> << >>, p |-> p, g |-> bench.g]
              /\ integrator_read_data("Euler", bench.g, bench.m[i].id,
                                      particle_write_data(bench.m[i]), p)
                    = [p |-> p, g |-> bench.g]

\* An Euler call has moved a particle with a non-zero velocity
C8_Witness ==
    /\ bench.on /\ bench.kind = "Euler" /\ ~bench.sampled /\ bench.calls > 1
    /\ bench.dt = 2
    /\ \E i \in 1 .. Len(bench.m) : bench.m[i].loc # bench.p0[bench.m[i].id]

\* C9: RK2: in every cycle the first integrate_step returns true, records
\* loc0[id] = p0 and sets the position to p0 + 0.5*dt*v0; the second sets it
\* to p0 + dt*v1, returns false and leaves loc0 empty and the counter at 0.
C9_RK2 ==
    (bench.on /\ bench.kind = "RK2" /\ ~bench.sampled /\ bench.calls > 0) =>
        \/ /\ Len(bench.vs) = 1
           /\ bench.ret
           /\ bench.g.step = 1
           /\ DOMAIN bench.g.loc0 = BenchIds
           /\ \A i \in 1 .. Len(bench.m) :
                 LET id == bench.m[i].id
                 IN  /\ bench.g.loc0[id] = bench.p0[id]
                     /\ \A d \in 1 .. Dim :
                           2 * (bench.m[i].loc[d] - bench.p0[id][d])
                              = BenchK(1, id)[d]
        \/ /\ Len(bench.vs) = 2
           /\ ~bench.ret
           /\ bench.g.step = 0
           /\ bench.g.loc0 = EmptyMap
           /\ \A i \in 1 .. Len(bench.m) :
                 LET id == bench.m[i].id
                 IN  bench.m[i].loc = PAdd(bench.p0[id], BenchK(2, id))

\* A second RK2 cycle has finished with v0 # v1 for some particle
C9_Witness ==
    /\ bench.on /\ bench.kind = "RK2" /\ ~bench.sampled /\ bench.calls = 4
    /\ Len(bench.vs) = 2
    /\ \E id \in BenchIds : bench.vs[1][id] # bench.vs[2][id]

\* C10: RK4: in every cycle calls 1 to 3 return true and call 4 returns
\* false; with k_i = dt*v_(i-1) the positions after the calls are p0 + k1/2,
\* p0 + k2/2, p0 + k3 and p0 + (k1 + 2*k2 + 2*k3 + k4)/6; after call 4 the
\* maps loc0, k1, k2, k3 are empty and the counter is 0.
C10_RK4 ==
    (bench.on /\ bench.kind = "RK4" /\ ~bench.sampled /\ bench.calls > 0) =>
        LET n == Len(bench.vs)
            Disp(i) == [d \in 1 .. Dim |->
                           bench.m[i].loc[d] - bench.p0[bench.m[i].id][d]]
        IN  /\ n \in 1 .. 4
            /\ bench.ret = (n < 4)
            /\ bench.g.step = n % 4
            /\ n = 4 => bench.g = NewIntegrator
            /\ \A i \in 1 .. Len(bench.m) :
                  LET id == bench.m[i].id
                  IN  \A d \in 1 .. Dim :
                        /\ n = 1 => 2 * Disp(i)[d] = BenchK(1, id)[d]
                        /\ n = 2 => 2 * Disp(i)[d] = BenchK(2, id)[d]
                        /\ n = 3 => Disp(i)[d] = BenchK(3, id)[d]
                        /\ n = 4 => 6 * Disp(i)[d] =
                                       BenchK(1, id)[d] + 2 * BenchK(2, id)[d]
                                       + 2 * BenchK(3, id)[d] + BenchK(4, id)[d]

\* An RK4 cycle has finished whose four sampled velocities were not all equal
C10_Witness ==
    /\ bench.on /\ bench.kind = "RK4" /\ ~bench.sampled /\ bench.calls = 4
    /\ Len(bench.vs) = 4
    /\ \E id \in BenchIds :
          /\ bench.vs[1][id] # bench.vs[2][id]
          /\ bench.vs[3][id] # bench.vs[4][id]

\* The step taken is a send_recv_particles call
ExchangeStep ==
    /\ AllAt({"exchange0"}) \/ AllAt({"exchange"})
    /\ pc' # pc

\* In the last find_all_cells of worker a the entry i left for a cell that
\* worker b owns
LeftFor(a, i, b) ==
    /\ i \in 1 .. Len(last_found[a])
    /\ IsActive(tria, last_found[a][i].found)
    /\ tria.owner[last_found[a][i].found] = b
    /\ b # a

\* C1: Conservation: whenever advance_timestep has returned, the sum over
\* all workers of the local population sizes equals the total set by
\* global_add_particles.
C1_Conservation ==
    AllAt({"done"}) =>
        \A w \in Workers :
            get_global_particle_count(particles) = global_sum_particles[w]

\* advance_timestep has returned after a timestep in which a particle left
\* its worker for another one
C1_Witness ==
    /\ AllAt({"done"})
    /\ global_sum_particles[0] = NumParticles
    /\ \E a \in Workers, b \in Workers, i \in 1 .. NumParticles :
          /\ LeftFor(a, i, b)
          /\ CountId(particles[b], last_found[a][i].id) = 1

\* C2: Exchange exactly-once: a particle that worker a holds flagged
\* non-local, whose position lies in a cell owned by worker b, and in no cell
\* owned by a third worker, is after send_recv_particles in b's population
\* once, with is-local = true, under an active cell of b that contains it,
\* and is not in a's population.
C2_ExchangeExactlyOnce ==
    [][ExchangeStep =>
          \A a \in Workers, b \in Workers :
             \A i \in 1 .. Len(particles[a]) :
                LET e == particles[a][i]
                    inside == {c \in ActiveSet(tria) : point_inside(c, e.loc)}
                IN  (/\ a # b
                     /\ ~e.local
                     /\ \E c \in inside : tria.owner[c] = b
                     /\ \A c \in inside : tria.owner[c] \in {a, b})
                    => /\ CountId(particles'[a], e.id) = 0
                       /\ CountId(particles'[b], e.id) = 1
                       /\ \A j \in 1 .. Len(particles'[b]) :
                             particles'[b][j].id = e.id =>
                                /\ particles'[b][j].local
                                /\ particles'[b][j].loc = e.loc
                                /\ particles'[b][j].vel = e.vel
                                /\ is_locally_owned(tria, b, particles'[b][j].cell)
                                /\ point_inside(particles'[b][j].cell, e.loc)
       ]_vars

\* After an exchange inside the loop a particle that left worker a is held
\* by worker b, which owns the cell it moved to
C2_Witness ==
    /\ AllAt({"sample"})
    /\ \E a \in Workers, b \in Workers, i \in 1 .. NumParticles :
          /\ LeftFor(a, i, b)
          /\ CountId(particles[b], last_found[a][i].id) = 1
          /\ CountId(particles[a], last_found[a][i].id) = 0

\* C3: of the workers that receive a leaving particle, at most one inserts
\* it: after send_recv_particles the particle is held at most once overall.
C3_AtMostOneClaims ==
    [][ExchangeStep =>
          \A a \in Workers :
             \A i \in 1 .. Len(particles[a]) :
                ~particles[a][i].local =>
                   Cardinality({w \in Workers :
                       CountId(particles'[w], particles[a][i].id) > 0}) <= 1
       ]_vars

\* A particle sent by a was read by two other workers b and c (both hold
\* its loc0 record); b kept it and c discarded it
C3_Witness ==
    /\ AllAt({"sample"})
    /\ kind = "RK2"
    /\ \E a \in Workers, b \in Workers, c \in Workers, i \in 1 .. NumParticles :
          /\ LeftFor(a, i, b)
          /\ c \notin {a, b}
          /\ CountId(particles[b], last_found[a][i].id) = 1
          /\ CountId(particles[c], last_found[a][i].id) = 0
          /\ last_found[a][i].id \in DOMAIN integ[c].loc0
          /\ last_found[a][i].id \in DOMAIN integ[b].loc0

\* C4: after advance_timestep has returned every auxiliary map of every
\* worker's integrator is empty.
C4_AuxEmptyAfterTimestep ==
    AllAt({"done"}) =>
        \A w \in Workers :
            /\ integ[w].loc0 = EmptyMap
            /\ integ[w].k1 = EmptyMap
            /\ integ[w].k2 = EmptyMap
            /\ integ[w].k3 = EmptyMap

\* C5: when no mesh change was signalled since the previous advance_timestep
\* and a particle is still inside its hint cell, which is a leaf, find_cell
\* returns the hint by its early return, without the search from the level 0
\* cells and without the scan of the active cells.
C5_FastPath ==
    \A w \in Workers :
        (mesh_status = "same" /\ pc[w] \in {"exchange0", "fixup0", "fixup", "exchange"}) =>
            \A i \in 1 .. Len(last_found[w]) :
                (/\ IsActive(tria, last_found[w][i].hint)
                 /\ point_inside(last_found[w][i].hint, last_found[w][i].loc))
                => /\ last_found[w][i].route = "hint"
                   /\ last_found[w][i].found = last_found[w][i].hint

\* C6: the exchange after the first find_all_cells of advance_timestep is
\* performed when the mesh changed since the previous advance_timestep and
\* skipped when it did not.
C6_InitialExchangeConditional ==
    [][\A w \in Workers :
          (pc[w] = "relocate0" /\ pc'[w] # pc[w]) =>
              ((pc'[w] = "exchange0") <=> (mesh_status # "same"))
      ]_vars

\* C7: advance_timestep runs find_all_cells, the optional exchange, the
\* boundary fix-up, and then repeats velocity sampling, integrate_step,
\* find_all_cells, boundary fix-up and exchange while integrate_step
\* returned true; check_particle_count follows the last exchange and ends
\* the call.
C7_Allowed(w) ==
    \/ pc[w] = "new" /\ pc'[w] \in {"idle", "thrown", "aborted"}
    \/ pc[w] \in {"idle", "done"} /\ pc'[w] = "relocate0"
    \/ pc[w] = "relocate0" /\ pc'[w] \in {"exchange0", "fixup0"}
    \/ pc[w] = "exchange0" /\ pc'[w] = "fixup0"
    \/ pc[w] = "fixup0" /\ pc'[w] = "sample"
    \/ pc[w] = "sample" /\ pc'[w] = "integrate"
    \/ /\ pc[w] = "integrate" /\ pc'[w] = "relocate"
       /\ continue_integrator'[w] = (kind # "Euler" /\ integ'[w].step # 0)
    \/ pc[w] = "relocate" /\ pc'[w] = "fixup"
    \/ pc[w] = "fixup" /\ pc'[w] = "exchange"
    \/ pc[w] = "exchange" /\ continue_integrator[w] /\ pc'[w] = "sample"
    \/ pc[w] = "exchange" /\ ~continue_integrator[w] /\ pc'[w] = "check"
    \/ pc[w] = "check" /\ pc'[w] \in {"done", "failed"}

C7_Order ==
    [][\A w \in Workers :
          /\ pc'[w] # pc[w] => C7_Allowed(w)
          /\ pc[w] # "integrate" => continue_integrator'[w] = continue_integrator[w]
                                    \/ pc'[w] = "relocate0"
      ]_vars

\* An RK4 timestep with particles has reached check_particle_count
C7_Witness ==
    /\ AllAt({"check"})
    /\ kind = "RK4"
    /\ get_global_particle_count(particles) = NumParticles
    /\ NumParticles > 0

\* Number of entries held by all workers together, counted entry by entry
TotalHeld == Cardinality({x \in Workers \X (1 .. (NumWorkers * (NumParticles + 1))) :
                             x[2] <= Len(particles[x[1]])})

\* C11: check_particle_count fails exactly when the sum of the local
\* population sizes over all workers differs from the recorded target, and
\* the outcome is the same on every worker: all return or all fail.
C11_CountCheck ==
    [][(AllAt({"check"}) /\ pc' # pc) =>
          /\ \A w \in Workers :
                pc'[w] = IF TotalHeld = global_sum_particles[w]
                         THEN "done" ELSE "failed"
          /\ \/ \A w \in Workers : pc'[w] = "done"
             \/ \A w \in Workers : pc'[w] = "failed"
      ]_vars

\* check_particle_count has failed on all workers after a particle was lost;
\* what is left is held by ranks other than 0
C11_Witness ==
    /\ AllAt({"failed"})
    /\ global_sum_particles[0] = NumParticles
    /\ Len(particles[0]) < TotalHeld

\* C12: when advance_timestep has returned, every particle in a worker's
\* container is flagged is-local and is stored under an active cell that
\* this worker owns and that contains the particle's position.
C12_LocalAtBoundary ==
    (AllAt({"done"}) /\ mesh_status = "same") =>
        \A w \in Workers :
            \A i \in 1 .. Len(particles[w]) :
                /\ particles[w][i].local
                /\ IsActive(tria, particles[w][i].cell)
                /\ is_locally_owned(tria, w, particles[w][i].cell)
                /\ point_inside(particles[w][i].cell, particles[w][i].loc)

\* advance_timestep has returned and a worker holds, under the cell it moved
\* to, a particle that it received from another worker in this timestep
C12_Witness ==
    /\ AllAt({"done"}) /\ mesh_status = "same"
    /\ \E a \in Workers, b \in Workers, i \in 1 .. NumParticles :
          /\ LeftFor(a, i, b)
          /\ \E j \in 1 .. Len(particles[b]) :
                /\ particles[b][j].id = last_found[a][i].id
                /\ particles[b][j].cell = last_found[a][i].found
                /\ particles[b][j].cell # last_found[a][i].hint

\* C13: for every position and hint find_cell returns either an active cell
\* that contains the position, with is-local equal to that cell being owned
\* by the calling worker, or the handle (-1,-1) with is-local false; it
\* returns (-1,-1) only when no active cell contains the position, and it
\* never returns a cell that has children.
C13_FindCell ==
    (bench.fn = "find_cell" /\ bench.called) =>
        LET f == bench.res
            containing == {c \in ActiveSet(tria) : point_inside(c, bench.loc)}
        IN  \/ /\ f.cell = NoCell
               /\ ~f.local
               /\ containing = {}
            \/ /\ f.cell \in containing
               /\ Children(tria, f.cell) = << >>
               /\ f.local = (tria.owner[f.cell] = bench.w)

\* A call returned from the loop over the active cells: the position is in
\* an active cell but in no cell of level 0
C13_Witness ==
    /\ bench.fn = "find_cell" /\ bench.called
    /\ bench.res.route = "scan"
    /\ bench.res.cell # NoCell
    /\ \A i \in 1 .. Len(RootCells) : ~point_inside(RootCells[i], bench.loc)

\* Number of entries of container m with the identifier, position and
\* velocity of e
CountSame(m, e) ==
    Cardinality({j \in 1 .. Len(m) :
                    m[j].id = e.id /\ m[j].loc = e.loc /\ m[j].vel = e.vel})

\* C14: find_all_cells keeps the multiset of particles of the container
\* (identifiers, positions and velocities; none lost, none duplicated) and
\* afterwards every particle is stored under the handle find_cell returned
\* for it, (-1,-1) for a particle found in no cell.
C14_FindAllCells ==
    [][\A w \in Workers :
          (pc[w] \in {"relocate0", "relocate"} /\ pc'[w] # pc[w]) =>
              /\ Len(particles'[w]) = Len(particles[w])
              /\ \A i \in 1 .. Len(particles[w]) :
                    LET e == particles[w][i]
                        f == find_cell(tria, w, triangulation_changed[w],
                                       e.loc, e.cell)
                    IN  /\ CountSame(particles'[w], e) = CountSame(particles[w], e)
                        /\ \A j \in 1 .. Len(particles'[w]) :
                              particles'[w][j].id = e.id =>
                                  /\ particles'[w][j].cell = f.cell
                                  /\ particles'[w][j].local = f.local
      ]_vars

\* After a find_all_cells a worker holds one particle under the cell it was
\* in before and another one, which is in no cell, under (-1,-1)
C14_Witness ==
    \E w \in Workers :
        /\ pc[w] = "fixup"
        /\ \E i \in 1 .. Len(particles[w]), j \in 1 .. Len(particles[w]) :
              /\ particles[w][i].cell = NoCell
              /\ particles[w][j].cell # NoCell
              /\ \E k \in 1 .. Len(last_found[w]) :
                    /\ last_found[w][k].id = particles[w][i].id
                    /\ last_found[w][k].hint # NoCell
                    /\ last_found[w][k].found = NoCell

\* C15: the identifier ranges [start_id, end_id) that global_add_particles
\* gives to the workers are pairwise disjoint and their union is exactly
\* 0 .. total_particles-1, so that the generated counts add up to
\* total_particles.
C15_IdRanges ==
    (bench.fn = "global_add_particles" /\ bench.called) =>
        LET Ids(w) == bench.ids[w].start_id .. (bench.ids[w].end_id - 1)
        IN  /\ \A a \in Workers, b \in Workers :
                  a # b => Ids(a) \cap Ids(b) = {}
            /\ UNION {Ids(w) : w \in Workers} = 0 .. (bench.total_particles - 1)
            /\ SumTo([w \in Workers |-> Cardinality(Ids(w))], NumWorkers - 1)
                  = bench.total_particles

C17_SamplingAbortsRun ==
    \A w \in Workers, v \in Workers :
        pc[w] = "thrown" => ~AtCollective(v)

InTimestep(w) ==
    pc[w] \in {"relocate0", "exchange0", "fixup0", "sample", "integrate",
               "relocate", "fixup", "exchange", "check"}

\* The places of the loop body after the integrate_step call
PastIntegrate(w) == pc[w] \in {"relocate", "fixup", "exchange"}

\* C19: the workers running advance_timestep execute the same collectives in
\* the same order whatever they hold, send or receive: two workers waiting
\* at collectives wait at the same one, the two decisions that select the
\* collectives (_triangulation_changed before the loop, continue_integrator
\* at its end) are the same on all of them, and so none waits at a
\* collective that a peer running the same advance_timestep never reaches.
C19_CollectiveMatching ==
    \A w \in Workers, v \in Workers :
        (InTimestep(w) /\ InTimestep(v)) =>
            /\ triangulation_changed[w] = triangulation_changed[v]
            /\ (AtCollective(w) /\ AtCollective(v)) => pc[w] = pc[v]
            /\ (PastIntegrate(w) /\ PastIntegrate(v)) =>
                  continue_integrator[w] = continue_integrator[v]

\* All workers wait at the exchange inside the loop of a multi-step scheme
\* that has not finished, one of them holding nothing and another holding
\* all particles
C19_Witness ==
    /\ AllAt({"exchange"})
    /\ kind # "Euler"
    /\ \A w \in Workers : continue_integrator[w]
    /\ \E w \in Workers, v \in Workers :
          /\ particles[w] = << >>
          /\ Len(particles[v]) = NumParticles
    /\ NumParticles > 0

\* Number of entries that the last find_all_cells of the workers found in
\* no cell of the mesh
NumLost ==
    Cardinality({x \in Workers \X (1 .. (NumWorkers * (NumParticles + 1))) :
                    /\ x[2] <= Len(last_found[x[1]])
                    /\ last_found[x[1]][x[2]].found = NoCell})

\* C20: a particle whose position is in no cell of any worker is sent to
\* all workers and kept by none of them (the population shrinks by the
\* number of such particles at the exchange), and the advance_timestep in
\* whose last pass this happened ends in the failure of check_particle_count
\* on all workers: it does not return.
C20_LostIsFatal ==
    [][/\ ExchangeStep => TotalHeld' = TotalHeld - NumLost
       /\ (AllAt({"check"}) /\ pc' # pc /\ NumLost > 0) =>
              \A w \in Workers : pc'[w] = "failed"
      ]_vars

\* The vectors an integrator holds for the identifier id
AuxOf(g, id) ==
    <<MapGet(g.loc0, id), MapGet(g.k1, id), MapGet(g.k2, id), MapGet(g.k3, id)>>

\* C21: a record is the particle data followed by the integrator data on
\* the sending and on the receiving side; write_data and read_data for an
\* identifier move the buffer pointer by data_len, and after them the
\* reading integrator holds for that identifier the vectors (loc0, and k1,
\* k2, k3 for RK4) the writing integrator held.
C21_WireRoundTrip ==
    (bench.fn = "wire" /\ bench.called) =>
        \A i \in 1 .. Len(bench.es) :
            LET e == bench.es[i]
                p0 == (i - 1) * SizeofDouble
                rec == (i - 1) * RecordDoubles(bench.kind)
                pl == particle_data_len \div SizeofDouble
            IN  /\ bench.one[i].wp = p0 + integrator_data_len(bench.kind)
                /\ bench.one[i].rp = p0 + integrator_data_len(bench.kind)
                /\ AuxOf(bench.one[i].h, e.id) = AuxOf(bench.g, e.id)
                /\ AuxOf(bench.h_recv, e.id) = AuxOf(bench.g, e.id)
                /\ Len(bench.send_data) =
                      Len(bench.es) * RecordDoubles(bench.kind)
                /\ SubSeq(bench.send_data, rec + 1, rec + pl) =
                      particle_write_data(e)
                /\ bench.kind = "RK2" =>
                      SubSeq(bench.send_data, rec + pl + 1,
                             rec + RecordDoubles(bench.kind)) =
                         PointDoubles(MapGet(bench.g.loc0, e.id))
                /\ bench.kind = "RK4" =>
                      SubSeq(bench.send_data, rec + pl + 1,
                             rec + RecordDoubles(bench.kind)) =
                         PointDoubles(MapGet(bench.g.loc0, e.id)) \o
                         PointDoubles(MapGet(bench.g.k1, e.id)) \o
                         PointDoubles(MapGet(bench.g.k2, e.id)) \o
                         PointDoubles(MapGet(bench.g.k3, e.id))
                /\ \A j \in 1 .. Len(bench.m_recv) :
                      bench.m_recv[j].id = e.id =>
                          /\ bench.m_recv[j].loc = e.loc
                          /\ bench.m_recv[j].vel = e.vel

\* An RK4 record with four different vectors was written after the third
\* call of the cycle and read by a worker that held older vectors for the
\* identifier and keeps the particle
C21_Witness ==
    /\ bench.fn = "wire"
    /\ bench.called
    /\ bench.kind = "RK4"
    /\ bench.g.step = 3
    /\ bench.h # [NewIntegrator EXCEPT !.step = 3]
    /\ Cardinality({AuxOf(bench.g, 0)[j] : j \in 1 .. 4}) >= 3
    /\ AuxOf(bench.h, 0) # AuxOf(bench.g, 0)
    /\ \E j \in 1 .. Len(bench.m_recv) : bench.m_recv[j].id = 0

\* C22: get_particle_velocities calls the evaluator once for every distinct
\* cell handle of the container, with the positions of the particles stored
\* under that handle in their order, and gives every particle the value of
\* the field at its own position in its own cell; positions, identifiers,
\* keys, flags and the number of entries stay as they were.
C22_Velocities ==
    (bench.fn = "get_particle_velocities" /\ bench.called) =>
        LET m == bench.before
            b == bench.calls
        IN  /\ Len(bench.after) = Len(m)
            /\ Len(b) = Cardinality({m[i].cell : i \in 1 .. Len(m)})
            /\ \A k \in 1 .. Len(b), j \in 1 .. Len(b) :
                  b[k].cell = b[j].cell => k = j
            /\ \A i \in 1 .. Len(m) :
                  /\ bench.after[i].id = m[i].id
                  /\ bench.after[i].loc = m[i].loc
                  /\ bench.after[i].cell = m[i].cell
                  /\ bench.after[i].local = m[i].local
                  /\ \E junk \in Velocities :
                        bench.after[i].vel =
                           vector_value_list(tria, bench.sol, m[i].cell,
                                             <<m[i].loc>>, junk)[1]
                  /\ \E k \in 1 .. Len(b) :
                        /\ b[k].cell = m[i].cell
                        /\ i - b[k].sit + 1 \in DOMAIN b[k].particle_points
                        /\ b[k].particle_points[i - b[k].sit + 1] = m[i].loc

\* The container held two particles under one cell at positions with
\* different field values and a third particle under another cell
C22_Witness ==
    /\ bench.fn = "get_particle_velocities"
    /\ bench.called
    /\ Len(bench.calls) = 2
    /\ \E i \in 1 .. Len(bench.after), j \in 1 .. Len(bench.after) :
          /\ i # j
          /\ bench.after[i].cell = bench.after[j].cell
          /\ bench.after[i].vel # bench.after[j].vel

\* C23: in send_recv_particles every worker announces the size of its
\* leaving set to every other rank and 0 to itself; the receive offset of a
\* worker for the sender rank is the sum of the counts announced to it by
\* the lower ranks, its total incoming count is the sum of the leaving set
\* sizes of all other workers, and that many records are in its receive
\* buffer, those of a sender at the sender's offset.
C23_ExchangeCounts ==
    [][ExchangeStep =>
          LET r == send_recv_particles(tria, triangulation_changed, kind,
                                       particles, integ)
              leaving == [w \in Workers |-> Len(LeavingParticles(particles[w]))]
              sent == [w \in Workers |->
                          FillSendData(kind, integ[w],
                                       LeavingParticles(particles[w]), 1, << >>).buf]
          IN  \A w \in Workers :
                 LET recv_data == RecvData(kind, sent, r.num_recv[w], 0)
                 IN  /\ \A rank \in Workers :
                           /\ r.num_send[w][rank] =
                                 IF rank = w THEN 0 ELSE leaving[w]
                           /\ r.num_recv[w][rank] =
                                 IF rank = w THEN 0 ELSE leaving[rank]
                           /\ recv_offset(r.num_recv[w], rank) =
                                 SumTo([v \in Workers |->
                                           IF v < rank THEN r.num_recv[w][v]
                                           ELSE 0], NumWorkers - 1)
                           /\ SubSeq(recv_data,
                                     recv_offset(r.num_recv[w], rank)
                                        * RecordDoubles(kind) + 1,
                                     (recv_offset(r.num_recv[w], rank)
                                        + r.num_recv[w][rank])
                                        * RecordDoubles(kind))
                              = IF rank = w THEN << >> ELSE sent[rank]
                     /\ r.total_recv[w] =
                           SumTo([v \in Workers |->
                                     IF v = w THEN 0 ELSE leaving[v]],
                                 NumWorkers - 1)
                     /\ Len(recv_data) = r.total_recv[w] * RecordDoubles(kind)
                     /\ particles'[w] = r.m[w]
      ]_vars

\* The exchange has been made in which two workers each sent a particle
\* that had left for a cell of another worker
C23_Witness ==
    /\ AllAt({"check"})
    /\ \E a \in Workers, b \in Workers, c \in Workers, d \in Workers,
          i \in 1 .. NumParticles, j \in 1 .. NumParticles :
          /\ a < b
          /\ LeftFor(a, i, c)
          /\ LeftFor(b, j, d)

\* The entries of container m whose identifier is in ids, in their order
WithIds(m, ids) ==
    LET keep == {i \in 1 .. Len(m) : m[i].id \in ids}
        nth(n) == CHOOSE i \in keep : Cardinality({j \in keep : j < i}) = n - 1
    IN  [n \in 1 .. Cardinality(keep) |-> m[nth(n)]]

\* C24: send_recv_particles takes out of the container the particles whose
\* is-local flag is false and no other: the particles whose flag is true
\* are in the container afterwards in the same order, unchanged and under
\* the same keys, and every particle of the container, kept or received,
\* has the flag true.
C24_ExchangeFrame ==
    [][ExchangeStep =>
          \A w \in Workers :
              LET m == particles[w]
                  stay == {m[i].id : i \in {j \in 1 .. Len(m) : m[j].local}}
                  leave == {m[i].id : i \in {j \in 1 .. Len(m) : ~m[j].local}}
              IN  /\ WithIds(particles'[w], stay) = WithIds(m, stay)
                  /\ \A id \in leave : CountId(particles'[w], id) = 0
                  /\ \A j \in 1 .. Len(particles'[w]) : particles'[w][j].local
      ]_vars

\* After the exchange inside the loop a worker holds the particle that its
\* last find_all_cells found in its own cell and no longer the one it found
\* in the cell of another worker
C24_Witness ==
    /\ AllAt({"check"})
    /\ \E w \in Workers, v \in Workers, i \in 1 .. NumParticles,
          j \in 1 .. NumParticles :
          /\ LeftFor(w, i, v)
          /\ CountId(particles[w], last_found[w][i].id) = 0
          /\ j \in 1 .. Len(last_found[w])
          /\ is_locally_owned(tria, w, last_found[w][j].found)
          /\ CountId(particles[w], last_found[w][j].id) = 1

\* Bytes described by the descriptors i .. j of data_info
FieldBytes(data_info, i, j) ==
    SumTo([n \in 0 .. Len(data_info) |->
              IF n >= i /\ n <= j
              THEN data_info[n].num_elems * data_info[n].elem_size_bytes
              ELSE 0], Len(data_info))

\* C25: in the record built by init the offset of a descriptor is the sum
\* of element count times element size over the descriptors before it, 0
\* for the first; the descriptors of the integrator describe data_len
\* bytes (0 for Euler, dim*8 for RK2, 4*dim*8 for RK4), and each of its
\* vectors has in the record the offset at which write_data and read_data
\* put it in the buffer, after the particle's data.
C25_WireLayout ==
    (bench.fn = "init" /\ bench.called) =>
        LET d == bench.data_info
            np == Len(bench.particle)
            names == <<"loc0", "k1", "k2", "k3">>
        IN  /\ \A i \in 1 .. Len(d) :
                  /\ bench.indices[i] = FieldBytes(d, 1, i - 1)
                  /\ bench.block_lens[i] = d[i].num_elems
            /\ Len(d) > 0 => bench.indices[1] = 0
            /\ FieldBytes(d, np + 1, Len(d)) = integrator_data_len(bench.kind)
            /\ integrator_data_len(bench.kind) =
                  CASE bench.kind = "Euler" -> 0
                    [] bench.kind = "RK2" -> Dim * 8
                    [] bench.kind = "RK4" -> 4 * Dim * 8
            /\ \A i \in (np + 1) .. Len(d) :
                  /\ d[i].name = names[i - np]
                  /\ bench.indices[i] =
                        FieldBytes(d, 1, np) + (i - np - 1) * Dim * SizeofDouble

\* init was called for the RK4 integrator and a particle type with three
\* fields of different byte lengths
C25_Witness ==
    /\ bench.fn = "init"
    /\ bench.called
    /\ bench.kind = "RK4"
    /\ Len(bench.particle) = 3
    /\ bench.particle[1].num_elems * bench.particle[1].elem_size_bytes
          # bench.particle[2].num_elems * bench.particle[2].elem_size_bytes
    /\ bench.particle[2].num_elems > 1

\* C26: with RK2 and RK4 a particle that changed its worker between two
\* sub-steps of a cycle is, when the last integrate_step of the cycle has
\* moved it, at the position the scheme gives from its position at the
\* start of the cycle and the velocities sampled for it: the position of a
\* particle with its identifier that made the cycle on an integrator of
\* its own without being handed over.
C26_MigrationIndependence ==
    (/\ bench.fn = "cycle"
     /\ bench.calls > 0
     /\ ~bench.sampled
     /\ ~bench.ret)
    => \A f \in bench.final :
          \E x \in DOMAIN bench.refs :
             /\ bench.refs[x].e.id = f.id
             /\ bench.refs[x].e.loc = f.loc

\* The number of integrate_step calls one cycle of the scheme takes
LoopPasses(k) ==
    CASE k = "Euler" -> 1
      [] k = "RK2" -> 2
      [] k = "RK4" -> 4

\* C27: the loop of advance_timestep has made exactly 1 pass with Euler, 2
\* with RK2 and 4 with RK4 when the worker has left it (it is at
\* check_particle_count or has returned or thrown from there), it never
\* makes more passes than that, and the integrator's _step is 0 when the
\* worker enters advance_timestep and again when it has left the loop.
C27_LoopPasses ==
    \A w \in Workers :
       /\ pc[w] \in {"relocate0", "exchange0", "fixup0"}
             => iterations[w] = 0 /\ integ[w].step = 0
       /\ pc[w] \in {"sample", "integrate", "relocate", "fixup", "exchange"}
             => iterations[w] <= LoopPasses(kind)
       /\ pc[w] \in {"check", "done", "failed"}
             => iterations[w] = LoopPasses(kind) /\ integ[w].step = 0

C27_Witness ==
    /\ kind = "RK4"
    /\ \E w \in Workers :
          /\ pc[w] = "done"
          /\ particles[w] # << >>
          /\ iterations[w] = 4
          /\ integ[w].step = 0

\* C28: a call of integrate_step by a worker leaves its container with the
\* same number of entries, every entry under the same key and with the
\* same identifier, velocity and is-local flag as before the call; it
\* changes no other worker's container or integrator and nothing else of
\* the World but the worker's flag continue_integrator, which takes the
\* returned value.
C28_IntegrateFrame ==
    [][\A w \in Workers :
          (pc[w] = "integrate" /\ pc'[w] = "relocate") =>
             /\ Len(particles'[w]) = Len(particles[w])
             /\ \A i \in 1 .. Len(particles[w]) :
                   /\ particles'[w][i].cell = particles[w][i].cell
                   /\ particles'[w][i].id = particles[w][i].id
                   /\ particles'[w][i].vel = particles[w][i].vel
                   /\ particles'[w][i].local = particles[w][i].local
             /\ \A v \in Workers \ {w} :
                   /\ particles'[v] = particles[v]
                   /\ integ'[v] = integ[v]
             /\ UNCHANGED <<tria, kind, triangulation_changed,
                            global_sum_particles, timestep, solution>>]_vars

C28_Witness ==
    \E w \in Workers :
       /\ pc[w] = "relocate"
       /\ kind = "RK4"
       /\ integ[w].step = 3
       /\ Len(particles[w]) = 2
       /\ particles[w][1].vel # ZeroPoint
       /\ particles[w][1].loc # MapGet(integ[w].loc0, particles[w][1].id)

\* C29: after any number of integrate_step calls on an RK2 or RK4
\* integrator, also with an empty container, _step is the number of calls
\* made since construction modulo the sub-step count (2 or 4): it lies in
\* the range the if chain of integrate_step handles, so the branch for
\* other values is never taken; the call has returned true exactly when
\* the counter it left is not 0.
C29_CounterInRange ==
    (bench.on /\ bench.kind \in {"RK2", "RK4"}) =>
        /\ bench.g.step \in ValidSteps(bench.kind)
        /\ bench.g.step = bench.calls % LoopPasses(bench.kind)
        /\ bench.calls > 0 /\ ~bench.sampled
              => bench.ret = (bench.g.step # 0)

C29_Witness ==
    /\ bench.on
    /\ bench.kind = "RK4"
    /\ bench.m = << >>
    /\ bench.calls = 5
    /\ bench.g.step = 1
    /\ ~bench.sampled

\* C30: when a worker is about to call get_particle_velocities in
\* advance_timestep, every entry of its container is keyed by a cell that
\* is not (-1,-1), is an active cell of the triangulation, is owned by the
\* worker and contains the position of the particle.
C30_SampledInOwnCell ==
    \A w \in Workers :
       pc[w] = "sample" =>
          \A i \in 1 .. Len(particles[w]) :
             /\ particles[w][i].cell # NoCell
             /\ IsActive(tria, particles[w][i].cell)
             /\ is_locally_owned(tria, w, particles[w][i].cell)
             /\ point_inside(particles[w][i].cell, particles[w][i].loc)

C30_Witness ==
    \E w \in Workers, a \in Workers :
       /\ a # w
       /\ pc[w] = "sample"
       /\ iterations[w] > 0
       /\ \E i \in 1 .. Len(last_found[a]), j \in 1 .. Len(particles[w]) :
             /\ last_found[a][i].found = particles[w][j].cell
             /\ last_found[a][i].id = particles[w][j].id
             /\ last_found[a][i].hint # particles[w][j].cell
             /\ is_locally_owned(tria, w, particles[w][j].cell)

\* Number of entries with identifier id that workers 0 .. w hold together
RECURSIVE HeldWithId(_, _)
HeldWithId(id, w) ==
    IF w < 0 THEN 0 ELSE HeldWithId(id, w - 1) + CountId(particles[w], id)

\* C31: when no worker is inside advance_timestep (after generation and
\* after every advance_timestep that returned), the identifiers held by
\* the workers are the identifiers 0 .. N-1 of the N particles of the
\* generation, and each of them is held once by one worker.
C31_IdentityConservation ==
    AllAt({"idle", "done"}) =>
        \A id \in 0 .. NumParticles :
           HeldWithId(id, NumWorkers - 1) =
              IF id < global_sum_particles[0] THEN 1 ELSE 0

\* C32: two workers that wait at the same collective of advance_timestep
\* (the exchange before the loop, the exchange of the loop, the count
\* check) have made the same number of passes through the loop and their
\* integrators hold the same _step, whatever the sizes of their containers.
C32_CountersAgree ==
    \A v, w \in Workers :
       (AtCollective(v) /\ pc[v] = pc[w]) =>
           /\ integ[v].step = integ[w].step
           /\ iterations[v] = iterations[w]

C32_Witness ==
    /\ AllAt({"exchange"})
    /\ kind = "RK4"
    /\ \E v, w \in Workers :
          /\ particles[v] = << >>
          /\ particles[w] # << >>
          /\ integ[v].step = 3
          /\ integ[w].step = 3

\* C33: send_recv_particles announces none of a worker's leaving particles
\* to the worker itself, and no particle that a worker removed as non-local
\* is in that worker's container after the exchange; in a communicator of
\* one worker the container afterwards holds the particles that stayed and
\* nothing else, so every leaving particle is gone from the population.
C33_NotBackToSender ==
    (bench.fn = "send_recv_particles" /\ bench.called) =>
        /\ \A w \in Workers :
              /\ bench.num_send[w] = 0
              /\ \A i \in 1 .. Len(bench.parts[w]) :
                    ~bench.parts[w][i].local
                       => CountId(bench.after[w], bench.parts[w][i].id) = 0
        /\ bench.group = "one"
              => bench.after[0] = StayingParticles(bench.parts[0])

C33_Witness ==
    /\ bench.fn = "send_recv_particles"
    /\ bench.called
    /\ bench.group = "one"
    /\ Len(bench.parts[0]) = 2
    /\ Len(LeavingParticles(bench.parts[0])) = 1
    /\ Len(bench.after[0]) = 1

\* C34: until the first advance_timestep of a World has returned, the flag
\* _triangulation_changed is set on every worker, no find_cell call of
\* find_all_cells has returned by the early return for the hint, and the
\* first find_all_cells of advance_timestep is followed by the exchange;
\* a step in which the mesh provider changes the mesh and signals it sets
\* the flag on every worker and leaves the containers, the integrators, the
\* target count and the workers' places as they were; no other step
\* changes the mesh.
C34_NewWorldIsChanged ==
    [][/\ mesh_status' = "new" =>
             \A w \in Workers :
                /\ triangulation_changed'[w]
                /\ \A i \in 1 .. Len(last_found'[w]) :
                      last_found'[w][i].route # "hint"
       /\ \A w \in Workers :
             (mesh_status = "new" /\ pc[w] = "relocate0" /\ pc'[w] # pc[w])
                => pc'[w] = "exchange0"
       /\ tria' # tria =>
             /\ AllAt({"new", "idle", "done"})
             /\ \A w \in Workers : triangulation_changed'[w]
             /\ UNCHANGED <<particles, integ, global_sum_particles, pc>>
      ]_vars

C34_Witness ==
    /\ mesh_status = "new"
    /\ \E w \in Workers :
          /\ pc[w] = "exchange0"
          /\ \E i \in 1 .. Len(last_found[w]) :
                /\ IsActive(tria, last_found[w][i].hint)
                /\ point_inside(last_found[w][i].hint, last_found[w][i].loc)
                /\ last_found[w][i].route = "descent"
                /\ last_found[w][i].found = last_found[w][i].hint

\* C35: after every call of global_add_particles(N), the first and one made
\* on containers that already hold particles, the sum of the sizes of the
\* workers' containers is the recorded target N on every worker (the test
\* check_particle_count makes).
C35_GeneratedCountIsTarget ==
    (bench.fn = "population" /\ bench.calls > 0) =>
        \A w \in Workers :
           CountMatches(get_global_particle_count(particles),
                        global_sum_particles[w])

====
